---------------------------- MODULE Spec2Model ----------------------------
(***************************************************************************)
(* A model of the acoustic "submarine ping" application: the symbol codec  *)
(* (core/mapping.js), the pattern emitter (audio/emitter.js), the pattern  *)
(* receiver (audio/receiver.js) and the peer registry (core/state.js).     *)
(*                                                                         *)
(* Frequencies are integers counted in units of 1/FreqScale Hz, with       *)
(* FreqScale = 10 * FFT_SIZE, so that both the codec's 0.1 Hz grid and the *)
(* analyser's bin frequencies i * SAMPLE_RATE / FFT_SIZE are exact.        *)
(* Times are milliseconds, magnitudes are hundredths of a dB.              *)
(***************************************************************************)
EXTENDS Integers, Sequences, FiniteSets, TLC

VARIABLES
    \* codec harness: one encode / decode round trip
    cId, cHue, cFreq, cOut,
    \* mapping harness: one decodeFrequency call (frequency, tolerance, result)
    \* and one getWaveform / getModelFromWaveform round trip
    dFreq, dTol, dOut, wId, wForm, wBack,
    \* peak harness: one findFrequencyPeaks call (spectrum, called, result)
    pData, pDone, pOut,
    \* matcher harness: one observed pulse sequence, its trend tag, the verdict
    mPulses, mTrend, mResult,
    \* segmenter harness: one history, whether it was segmented, the pulses
    sHistory, sDone, sPulses,
    \* cadence harness: the time between two animation frames (ms)
    framePeriod,
    \* receiver.js: DETECTION_THRESHOLDS.SIGNAL_PROCESS, the one threshold
    \* setDetectionThresholds is called with
    processThreshold,
    \* registry harness: the last call of a registry function, what it was
    \* given and what it returned
    lastPeerCall,
    \* dual-tone harness: the result of one getSubmarineFromFrequency call
    toneOut,
    \* Date.now()
    now,
    \* emitter.js: module state, the tone bursts scheduled so far, the
    \* pingEmitted notifications published so far, the last emitPing call
    audioContext, lastEmitTime, oscillators, emitted, lastCall,
    \* emitter.js: the AUDIO_SETTINGS object (gain in hundredths, times in ms)
    AUDIO_SETTINGS,
    \* receiver.js: module state, the pending settle timers, the pingDetected
    \* events dispatched so far, the peaks of the last processed frame
    isListening, lastSelfPingTime, lastDetectionTime, signalHistory,
    timers, detected, peaks,
    \* the last run of analyzeSignalPattern: when, and the path it took
    verdict,
    \* the animation-frame clock and the microphone's scripted input
    tickAt, feed, trainsLeft,
    \* the analyzeFrame callbacks requestAnimationFrame holds, and the
    \* startListening calls so far: calls made, getUserMedia requests issued
    \* and still pending, micPermissionDenied notifications, errors thrown
    loops, mic,
    \* state.js: the peer registry, in insertion order
    peers

mappingVars == <<dFreq, dTol, dOut, wId, wForm, wBack>>
peakVars == <<pData, pDone, pOut>>
codecVars == <<cId, cHue, cFreq, cOut, mappingVars, peakVars>>
segmentVars == <<sHistory, sDone, sPulses>>
matchVars == <<mPulses, mTrend, mResult, segmentVars, framePeriod, processThreshold,
               lastPeerCall, toneOut>>
emitterVars == <<audioContext, lastEmitTime, oscillators, emitted, lastCall,
                 AUDIO_SETTINGS>>
receiverVars == <<isListening, lastSelfPingTime, lastDetectionTime, signalHistory,
                  timers, detected, peaks, verdict>>
inputVars == <<tickAt, feed, trainsLeft>>
lifeVars == <<loops, mic>>
appVars == <<now, audioContext, lastEmitTime, oscillators, emitted, lastCall,
             AUDIO_SETTINGS,
             isListening, lastSelfPingTime, lastDetectionTime, signalHistory,
             timers, detected, peaks, verdict, tickAt, feed, trainsLeft,
             loops, mic, peers>>
vars == <<cId, cHue, cFreq, cOut, dFreq, dTol, dOut, wId, wForm, wBack,
          pData, pDone, pOut, mPulses, mTrend, mResult, sHistory, sDone, sPulses,
          framePeriod, processThreshold, lastPeerCall, toneOut, now,
          audioContext, lastEmitTime, oscillators, emitted, lastCall,
          AUDIO_SETTINGS, isListening, lastSelfPingTime, lastDetectionTime, signalHistory,
          timers, detected, peaks, verdict, tickAt, feed, trainsLeft,
          loops, mic, peers>>

----------------------------------------------------------------------------
(* Generic helpers mirroring the JavaScript built-ins the code uses.       *)

Max(a, b) == IF a >= b THEN a ELSE b
Min(a, b) == IF a <= b THEN a ELSE b
Abs(a) == IF a < 0 THEN -a ELSE a

\* Math.round(n / d) for d > 0: the nearest integer, halves rounded up.
MathRound(n, d) == (2 * n + d) \div (2 * d)

\* Math.ceil(n / 2) for n >= 0.
CeilHalf(n) == (n + 1) \div 2

RECURSIVE SumSeq(_)
SumSeq(s) == IF s = <<>> THEN 0 ELSE Head(s) + SumSeq(Tail(s))

----------------------------------------------------------------------------
(* core/mapping.js                                                         *)

SAMPLE_RATE == 44100
FFT_SIZE == 2048
FreqScale == 10 * FFT_SIZE

\* n Hz, and n tenths of a Hz, in model units.
Hz(n) == n * FreqScale
Tenths(n) == n * FFT_SIZE

HueMax == 255
DefaultTolerance == 5

Identities == {"military", "research", "robotic", "tourist"}
ModelIds == Identities \cup {"unknown"}

\* Object.entries order of SUBMARINE_FREQUENCY_RANGES.
RangeOrder == <<"military", "research", "robotic", "tourist">>

\* A variant whose bands are 5 Hz apart, so that they overlap once widened
\* by the default tolerance.
CrowdedFrequencyRanges ==
    [military |-> [min |-> 800, max |-> 900],
     research |-> [min |-> 905, max |-> 1005],
     robotic |-> [min |-> 1010, max |-> 1110],
     tourist |-> [min |-> 1115, max |-> 1215]]

SUBMARINE_FREQUENCY_RANGES ==
    [military |-> [min |-> 800, max |-> 900],
     research |-> [min |-> 1000, max |-> 1100],
     robotic |-> [min |-> 1200, max |-> 1300],
     tourist |-> [min |-> 1400, max |-> 1500]]

getFrequencyRanges == SUBMARINE_FREQUENCY_RANGES

\* A variant that truncates to whole Hz instead of rounding to 0.1 Hz.
getSubmarineFrequencyWholeHz(modelId, hue) ==
    IF modelId \notin DOMAIN SUBMARINE_FREQUENCY_RANGES
    THEN Hz(SUBMARINE_FREQUENCY_RANGES.research.min)
    ELSE LET range == SUBMARINE_FREQUENCY_RANGES[modelId]
         IN  Hz((range.min * HueMax + hue * (range.max - range.min)) \div HueMax)

\* range.min + (hue / 255) * (range.max - range.min), rounded to 0.1 Hz.
getSubmarineFrequency(modelId, hue) ==
    IF modelId \notin DOMAIN SUBMARINE_FREQUENCY_RANGES
    THEN Hz(SUBMARINE_FREQUENCY_RANGES.research.min)
    ELSE LET range == SUBMARINE_FREQUENCY_RANGES[modelId]
         IN  Tenths(MathRound(10 * (range.min * HueMax + hue * (range.max - range.min)),
                              HueMax))

\* The value decodeFrequency returns when no band matches (null).
NoDecode == [submarineType |-> "null", hue |-> -1, frequency |-> -1]

\* A variant without the clamp to 0..255.
decodeHueUnclamped(frequency, range) ==
    MathRound((frequency - Hz(range.min)) * HueMax, Hz(range.max - range.min))

\* Math.round(Math.max(0, Math.min(255, normalizedPosition * 255))).
decodeHue(frequency, range) ==
    LET num == (frequency - Hz(range.min)) * HueMax
        den == Hz(range.max - range.min)
    IN  IF num <= 0 THEN 0
        ELSE IF num >= HueMax * den THEN HueMax
        ELSE MathRound(num, den)

RECURSIVE decodeFrom(_, _, _)
decodeFrom(i, frequency, tolerance) ==
    IF i > Len(RangeOrder) THEN NoDecode
    ELSE LET modelId == RangeOrder[i]
             range == SUBMARINE_FREQUENCY_RANGES[modelId]
         IN  IF /\ frequency >= Hz(range.min - tolerance)
                /\ frequency <= Hz(range.max + tolerance)
             THEN [submarineType |-> modelId,
                   hue |-> decodeHue(frequency, range),
                   frequency |-> frequency]
             ELSE decodeFrom(i + 1, frequency, tolerance)

\* A variant that ignores the tolerance.
decodeFrequencyNoTolerance(frequency, tolerance) == decodeFrom(1, frequency, 0)

decodeFrequency(frequency, tolerance) == decodeFrom(1, frequency, tolerance)

\* hueToFrequency(hue, submarineType = 'research').
hueToFrequency(hue, submarineType) == getSubmarineFrequency(submarineType, hue)

\* The default of hueToFrequency's second parameter.
DefaultSubmarineType == "research"

\* getWaveform(modelId).
getWaveform(modelId) == "sine"

\* The value getModelFromWaveform returns (null).
NoModel == "null"

\* getModelFromWaveform(waveform).
getModelFromWaveform(waveform) == NoModel

InBand(frequency, modelId) ==
    /\ frequency >= Hz(SUBMARINE_FREQUENCY_RANGES[modelId].min)
    /\ frequency <= Hz(SUBMARINE_FREQUENCY_RANGES[modelId].max)

InCodecBands(frequency) == \E id \in Identities : InBand(frequency, id)

----------------------------------------------------------------------------
(* audio/receiver.js: the pattern matcher                                  *)

\* n dB in model units (hundredths of a dB).
Db(n) == n * 100

Trends == {"constant", "ascending", "descending", "alternating", "mixed"}

\* Object.entries order of the receiver's SUBMARINE_PATTERNS.
PatternOrder == <<"research", "military", "tourist", "robotic">>

\* A variant in which tourist, like military, has three pulses, 60 ms apart.
AmbiguousSubmarinePatterns ==
    [research |-> [timing |-> <<200>>, amplitudePattern |-> "constant"],
     military |-> [timing |-> <<100, 50, 100, 50, 100>>,
                   amplitudePattern |-> "ascending"],
     tourist |-> [timing |-> <<150, 60, 150, 60, 150>>,
                  amplitudePattern |-> "descending"],
     robotic |-> [timing |-> <<80, 40, 80, 40, 80, 40, 80>>,
                  amplitudePattern |-> "alternating"]]

SUBMARINE_PATTERNS ==
    [research |-> [timing |-> <<200>>, amplitudePattern |-> "constant"],
     military |-> [timing |-> <<100, 50, 100, 50, 100>>,
                   amplitudePattern |-> "ascending"],
     tourist |-> [timing |-> <<150, 75, 150>>, amplitudePattern |-> "descending"],
     robotic |-> [timing |-> <<80, 40, 80, 40, 80, 40, 80>>,
                  amplitudePattern |-> "alternating"]]

\* The value matchSignalPattern returns when nothing matches (null); a match
\* is reported by its modelId, its pattern being SUBMARINE_PATTERNS[modelId].
NoMatch == "null"

\* amplitudeTrend: 'same' | 'up' | 'down' for each pair of consecutive pulses.
amplitudeTrendOf(pulseSequences) ==
    [i \in 1..(Len(pulseSequences) - 1) |->
        LET diff == pulseSequences[i + 1].maxMagnitude - pulseSequences[i].maxMagnitude
        IN  IF Abs(diff) < Db(3) THEN "same"
            ELSE IF diff > 0 THEN "up" ELSE "down"]

CountOf(seq, v) == Cardinality({i \in DOMAIN seq : seq[i] = v})

analyzeAmplitudePattern(pulseSequences) ==
    IF Len(pulseSequences) < 2 THEN "constant"
    ELSE LET amplitudeTrend == amplitudeTrendOf(pulseSequences)
             n == Len(amplitudeTrend)
             upCount == CountOf(amplitudeTrend, "up")
             downCount == CountOf(amplitudeTrend, "down")
             sameCount == CountOf(amplitudeTrend, "same")
             alternating ==
                 \A i \in 2..n : \/ amplitudeTrend[i] # amplitudeTrend[i - 1]
                                 \/ amplitudeTrend[i] = "same"
         IN  IF 10 * sameCount >= 7 * n THEN "constant"
             ELSE IF 2 * upCount > 3 * downCount THEN "ascending"
             ELSE IF 2 * downCount > 3 * upCount THEN "descending"
             ELSE IF n >= 2 /\ alternating /\ 2 * sameCount < n THEN "alternating"
             ELSE "mixed"

\* The per-identity interval tolerance (the switch in matchesTimingPattern).
timingTolerance(modelId) ==
    CASE modelId = "robotic" -> 15
      [] modelId = "military" -> 15
      [] modelId = "tourist" -> 20
      [] OTHER -> 25

\* expectedIntervals: the entries of the timing list at odd 0-based indices.
expectedIntervalsOf(expectedPattern) ==
    [k \in 1..(Len(expectedPattern) \div 2) |-> expectedPattern[2 * k]]

\* A variant that applies the default tolerance to every identity.
matchesTimingPatternDefaultTolerance(detectedIntervals, expectedPattern, modelId, pulseCount) ==
    LET expectedIntervals == expectedIntervalsOf(expectedPattern)
    IN  /\ pulseCount = CeilHalf(Len(expectedPattern))
        /\ Len(detectedIntervals) = Len(expectedIntervals)
        /\ \A i \in DOMAIN expectedIntervals :
               Abs(detectedIntervals[i] - expectedIntervals[i]) <= 25

matchesTimingPattern(detectedIntervals, expectedPattern, modelId, pulseCount) ==
    LET expectedIntervals == expectedIntervalsOf(expectedPattern)
        expectedPulseCount == CeilHalf(Len(expectedPattern))
        tolerance == timingTolerance(modelId)
    IN  /\ pulseCount = expectedPulseCount
        /\ Len(detectedIntervals) = Len(expectedIntervals)
        /\ \A i \in DOMAIN expectedIntervals :
               ~(Abs(detectedIntervals[i] - expectedIntervals[i]) > tolerance)

\* The comparator of the specificity sort: negative when a goes first.
specificityCompare(a, b) ==
    LET aPulses == CeilHalf(Len(SUBMARINE_PATTERNS[a].timing))
        bPulses == CeilHalf(Len(SUBMARINE_PATTERNS[b].timing))
        aInterval == IF Len(SUBMARINE_PATTERNS[a].timing) >= 2
                     THEN SUBMARINE_PATTERNS[a].timing[2] ELSE 0
        bInterval == IF Len(SUBMARINE_PATTERNS[b].timing) >= 2
                     THEN SUBMARINE_PATTERNS[b].timing[2] ELSE 0
    IN  IF aPulses # bPulses THEN bPulses - aPulses ELSE aInterval - bInterval

\* Array.prototype.sort with specificityCompare (a stable sort).
RECURSIVE insertSorted(_, _)
insertSorted(x, sorted) ==
    IF sorted = <<>> THEN <<x>>
    ELSE IF specificityCompare(x, Head(sorted)) < 0 THEN <<x>> \o sorted
    ELSE <<Head(sorted)>> \o insertSorted(x, Tail(sorted))

RECURSIVE sortBySpecificity(_)
sortBySpecificity(seq) ==
    IF seq = <<>> THEN <<>>
    ELSE insertSorted(seq[Len(seq)], sortBySpecificity(SubSeq(seq, 1, Len(seq) - 1)))

patternEntries ==
    sortBySpecificity(SelectSeq(PatternOrder, LAMBDA modelId : modelId # "research"))

intervalsOf(pulseSequences) ==
    [i \in 1..(Len(pulseSequences) - 1) |->
        pulseSequences[i + 1].startTime - pulseSequences[i].endTime]

\* A variant that accepts a candidate only when timing and amplitude both match.
RECURSIVE matchFromStrict(_, _, _, _)
matchFromStrict(k, intervals, pulseCount, amplitudePattern) ==
    IF k > Len(patternEntries) THEN NoMatch
    ELSE LET modelId == patternEntries[k]
             pattern == SUBMARINE_PATTERNS[modelId]
             timingMatch == matchesTimingPattern(intervals, pattern.timing,
                                                 modelId, pulseCount)
             amplitudeMatch == pattern.amplitudePattern = amplitudePattern
         IN  IF timingMatch /\ amplitudeMatch THEN modelId
             ELSE matchFromStrict(k + 1, intervals, pulseCount, amplitudePattern)

\* The loop of matchSignalPattern over patternEntries, from entry k.
RECURSIVE matchFrom(_, _, _, _)
matchFrom(k, intervals, pulseCount, amplitudePattern) ==
    IF k > Len(patternEntries) THEN NoMatch
    ELSE LET modelId == patternEntries[k]
             pattern == SUBMARINE_PATTERNS[modelId]
             timingMatch == matchesTimingPattern(intervals, pattern.timing,
                                                 modelId, pulseCount)
             amplitudeMatch == pattern.amplitudePattern = amplitudePattern
         IN  IF timingMatch /\ amplitudeMatch THEN modelId
             ELSE IF timingMatch /\ amplitudePattern # "mixed" THEN modelId
             ELSE matchFrom(k + 1, intervals, pulseCount, amplitudePattern)

\* A variant whose single-pulse branch does not look at the amplitude tag.
matchSignalPatternAnyTrend(pulseSequences, amplitudePattern) ==
    IF Len(pulseSequences) = 1
    THEN IF pulseSequences[1].duration >= 150 /\ pulseSequences[1].duration <= 300
         THEN "research" ELSE NoMatch
    ELSE IF Len(pulseSequences) > 1
    THEN matchFrom(1, intervalsOf(pulseSequences), Len(pulseSequences), amplitudePattern)
    ELSE NoMatch

matchSignalPattern(pulseSequences, amplitudePattern) ==
    IF Len(pulseSequences) = 1
    THEN LET duration == pulseSequences[1].duration
         IN  IF /\ duration >= 150
                /\ duration <= 300
                /\ amplitudePattern = "constant"
             THEN "research"
             ELSE NoMatch
    ELSE IF Len(pulseSequences) > 1
    THEN matchFrom(1, intervalsOf(pulseSequences), Len(pulseSequences), amplitudePattern)
    ELSE NoMatch

----------------------------------------------------------------------------
(* audio/emitter.js (the amplitude-signature emitter)                      *)
(* The file holds three successive versions of the module; this is the    *)
(* last one, with per-pulse gains and the 2000 ms cooldown.                *)

\* A variant whose robotic pulses last 200 ms each.
SlowEmitterPatterns ==
    [research |-> [timing |-> <<200>>, amplitudePattern |-> "constant",
                   gains |-> <<50>>],
     military |-> [timing |-> <<100, 50, 100, 50, 100>>,
                   amplitudePattern |-> "ascending", gains |-> <<30, 40, 50>>],
     tourist |-> [timing |-> <<150, 75, 150>>, amplitudePattern |-> "descending",
                  gains |-> <<50, 30>>],
     robotic |-> [timing |-> <<200, 40, 200, 40, 200, 40, 200>>,
                  amplitudePattern |-> "alternating", gains |-> <<50, 30, 50, 30>>]]

\* The emitter's SUBMARINE_PATTERNS; gains in hundredths.
EMITTER_PATTERNS ==
    [research |-> [timing |-> <<200>>, amplitudePattern |-> "constant",
                   gains |-> <<50>>],
     military |-> [timing |-> <<100, 50, 100, 50, 100>>,
                   amplitudePattern |-> "ascending", gains |-> <<30, 40, 50>>],
     tourist |-> [timing |-> <<150, 75, 150>>, amplitudePattern |-> "descending",
                  gains |-> <<50, 30>>],
     robotic |-> [timing |-> <<80, 40, 80, 40, 80, 40, 80>>,
                  amplitudePattern |-> "alternating", gains |-> <<50, 30, 50, 30>>]]

\* if (now - lastEmitTime < 2000) return;
EMIT_COOLDOWN == 2000

\* The initial AUDIO_SETTINGS.
DefaultAudioSettings == [PING_GAIN |-> 50, ATTACK_TIME |-> 10, RELEASE_TIME |-> 50]

\* gains[pulseIndex] || 0.5
DEFAULT_PULSE_GAIN == 50

\* SUBMARINE_PATTERNS[modelId] || SUBMARINE_PATTERNS.research
patternDataOf(modelId) ==
    IF modelId \in DOMAIN EMITTER_PATTERNS
    THEN EMITTER_PATTERNS[modelId] ELSE EMITTER_PATTERNS.research

\* The offset from audioContext.currentTime at which the loop reaches pulse k
\* (currentTime += pulseDuration + pauseDuration after each pulse), in ms.
RECURSIVE pulseOffset(_, _)
pulseOffset(pattern, k) ==
    IF k = 1 THEN 0
    ELSE pulseOffset(pattern, k - 1) + pattern[2 * k - 3]
         + (IF 2 * k - 2 <= Len(pattern) THEN pattern[2 * k - 2] ELSE 0)

\* A variant whose cursor advances by the pulse duration only.
burstsOfNoPause(frequency, patternData, at) ==
    LET pattern == patternData.timing
        gains == patternData.gains
        offset(k) == pulseOffset([i \in DOMAIN pattern |->
                                     IF i % 2 = 0 THEN 0 ELSE pattern[i]], k)
    IN  [k \in 1..CeilHalf(Len(pattern)) |->
            [at |-> at,
             frequency |-> frequency,
             start |-> offset(k),
             stop |-> offset(k) + pattern[2 * k - 1],
             gain |-> IF k <= Len(gains) /\ gains[k] # 0
                      THEN gains[k] ELSE DEFAULT_PULSE_GAIN]]

\* The oscillators one accepted emitPing call starts: one per pulse.
burstsOf(frequency, patternData, at) ==
    LET pattern == patternData.timing
        gains == patternData.gains
    IN  [k \in 1..CeilHalf(Len(pattern)) |->
            [at |-> at,
             frequency |-> frequency,
             start |-> pulseOffset(pattern, k),
             stop |-> pulseOffset(pattern, k) + pattern[2 * k - 1],
             gain |-> IF k <= Len(gains) /\ gains[k] # 0
                      THEN gains[k] ELSE DEFAULT_PULSE_GAIN]]

\* A variant of the listener that only notes the time of the emission.
pingEmittedListenerKeepsHistory ==
    /\ lastSelfPingTime' = now
    /\ UNCHANGED <<isListening, lastDetectionTime, signalHistory, timers, detected,
                   peaks, verdict>>

\* receiver.js: window.addEventListener('pingEmitted', ...), run synchronously
\* by the emitter's dispatchEvent.
pingEmittedListener ==
    /\ lastSelfPingTime' = now
    /\ lastDetectionTime' = now
    /\ signalHistory' = <<>>
    /\ UNCHANGED <<isListening, timers, detected, peaks, verdict>>

\* A variant without the rate limit.
emitPingNoRateLimit(hue, modelId) ==
    /\ audioContext
    /\ lastEmitTime' = now
    /\ oscillators' = oscillators \o burstsOf(hueToFrequency(hue, DefaultSubmarineType), patternDataOf(modelId), now)
    /\ emitted' = Append(emitted, [frequency |-> hueToFrequency(hue, DefaultSubmarineType), modelId |-> modelId,
                                   pattern |-> patternDataOf(modelId), timestamp |-> now])
    /\ lastCall' = [n |-> lastCall.n + 1, hue |-> hue, modelId |-> modelId,
                    outcome |-> "accepted"]
    /\ pingEmittedListener
    /\ UNCHANGED <<audioContext, AUDIO_SETTINGS>>

emitPing(hue, modelId) ==
    LET call(outcome) == [n |-> lastCall.n + 1, hue |-> hue, modelId |-> modelId,
                          outcome |-> outcome]
    IN  IF ~audioContext
        THEN \* throw new Error('Audio context not initialized')
             /\ lastCall' = call("error")
             /\ UNCHANGED <<audioContext, lastEmitTime, oscillators, emitted,
                            AUDIO_SETTINGS>>
             /\ UNCHANGED receiverVars
        ELSE IF now - lastEmitTime < EMIT_COOLDOWN
        THEN \* return
             /\ lastCall' = call("noop")
             /\ UNCHANGED <<audioContext, lastEmitTime, oscillators, emitted,
                            AUDIO_SETTINGS>>
             /\ UNCHANGED receiverVars
        ELSE LET frequency == hueToFrequency(hue, DefaultSubmarineType)
                 patternData == patternDataOf(modelId)
             IN  /\ lastEmitTime' = now
                 /\ oscillators' = oscillators \o burstsOf(frequency, patternData, now)
                 /\ emitted' = Append(emitted, [frequency |-> frequency,
                                                modelId |-> modelId,
                                                pattern |-> patternData,
                                                timestamp |-> now])
                 /\ lastCall' = call("accepted")
                 /\ pingEmittedListener
                 /\ UNCHANGED <<audioContext, AUDIO_SETTINGS>>

initAudioContext ==
    /\ audioContext' = TRUE
    /\ UNCHANGED <<lastEmitTime, oscillators, emitted, lastCall, AUDIO_SETTINGS>>

\* setAudioSettings(newSettings): Object.assign(AUDIO_SETTINGS, newSettings).
setAudioSettings(newSettings) ==
    /\ AUDIO_SETTINGS' = newSettings @@ AUDIO_SETTINGS
    /\ UNCHANGED <<audioContext, lastEmitTime, oscillators, emitted, lastCall>>

----------------------------------------------------------------------------
(* core/state.js: the peer registry                                        *)

MAX_PEERS == 20

\* The value of a destructured property the event does not carry.
Undefined == -1

indexOfPeer(registry, peerId) ==
    LET hits == {i \in DOMAIN registry : registry[i].id = peerId}
    IN  IF hits = {} THEN 0 ELSE CHOOSE i \in hits : TRUE

\* peers.set(peerId, peer): an existing key keeps its place in the Map.
peersSet(registry, peer) ==
    LET i == indexOfPeer(registry, peer.id)
    IN  IF i = 0 THEN Append(registry, peer) ELSE [registry EXCEPT ![i] = peer]

\* The first entry, in Map order, with the smallest lastSeen.
oldestIndex(registry) ==
    CHOOSE i \in DOMAIN registry :
        /\ \A j \in DOMAIN registry : registry[i].lastSeen <= registry[j].lastSeen
        /\ \A j \in 1..(i - 1) : registry[j].lastSeen > registry[i].lastSeen

removeAt(registry, i) ==
    SubSeq(registry, 1, i - 1) \o SubSeq(registry, i + 1, Len(registry))

\* const peerId = `${Math.round(frequency)}_${modelId}`
peerIdOf(pingEvent) ==
    [hz |-> MathRound(pingEvent.frequency, FreqScale), modelId |-> pingEvent.modelId]

\* The record addPeer builds from the ping it is given.
peerOf(pingEvent) ==
    [id |-> peerIdOf(pingEvent),
     lastSeen |-> pingEvent.timestamp,
     strength |-> pingEvent.strength,
     magnitude |-> pingEvent.magnitude,
     hue |-> IF "hue" \in DOMAIN pingEvent THEN pingEvent.hue ELSE Undefined,
     modelId |-> pingEvent.modelId,
     frequency |-> pingEvent.frequency]

\* A variant of addPeer that never evicts.
addPeerNoLimit(registry, pingEvent) == peersSet(registry, peerOf(pingEvent))

\* The registry after addPeer(pingEvent).
addPeer(registry, pingEvent) ==
    LET stored == peersSet(registry, peerOf(pingEvent))
    IN  IF Len(stored) > MAX_PEERS THEN removeAt(stored, oldestIndex(stored)) ELSE stored

\* peers.get(peerId): the record, here as a one-element sequence, or
\* undefined, here the empty sequence.
getPeer(registry, peerId) ==
    LET i == indexOfPeer(registry, peerId)
    IN  IF i = 0 THEN <<>> ELSE <<registry[i]>>

\* What addPeer(pingEvent) returns: peers.get(peerId) after the eviction.
addPeerReturn(registry, pingEvent) ==
    getPeer(addPeer(registry, pingEvent), peerIdOf(pingEvent))

\* The registry after removePeer(peerId): peers.delete(peerId).
removePeer(registry, peerId) ==
    LET i == indexOfPeer(registry, peerId)
    IN  IF i = 0 THEN registry ELSE removeAt(registry, i)

FADE_OUT_MS == 1000

\* The registry after cleanupStalePeers() run at time t.
cleanupStalePeers(registry, t) ==
    LET cutoffTime == t - FADE_OUT_MS - 1000
    IN  SelectSeq(registry, LAMBDA peer : ~(peer.lastSeen < cutoffTime))

\* The registry after clearAllPeers().
clearAllPeers == <<>>

\* No registry function has been called yet.
NoPeerCall == [n |-> 0, op |-> "none", given |-> <<>>, returned |-> <<>>]

----------------------------------------------------------------------------
(* audio/receiver.js: analysis of one frame                                *)

HISTORY_DURATION == 700
SELF_PING_COOLDOWN == 2500
DETECTION_COOLDOWN == 800

DETECTION_THRESHOLDS ==
    [PEAK_SEARCH |-> Db(-55), SIGNAL_PROCESS |-> Db(-45), NOISE_FLOOR |-> Db(-65)]

\* let bestFrequency = null
Null == -1

\* a || b on frequencies: null and 0 are falsy.
OrElse(a, b) == IF a = Null \/ a = 0 THEN b ELSE a

minPeakDistance == 5

\* The bins findFrequencyPeaks pushes: above the search threshold and a
\* strict local maximum within minPeakDistance bins on either side.
peakBins(frequencyData) ==
    LET length == Cardinality(DOMAIN frequencyData)
    IN  {i \in minPeakDistance..(length - minPeakDistance - 1) :
            /\ frequencyData[i] > DETECTION_THRESHOLDS.PEAK_SEARCH
            /\ \A j \in (i - minPeakDistance)..(i + minPeakDistance) :
                   j # i => ~(frequencyData[j] >= frequencyData[i])}

\* peaks.sort((a, b) => b.magnitude - a.magnitude): strongest first, equal
\* magnitudes in push (bin) order.
RECURSIVE sortByMagnitude(_, _)
sortByMagnitude(frequencyData, bins) ==
    IF bins = {} THEN <<>>
    ELSE LET first == CHOOSE i \in bins :
                 \A j \in bins : \/ frequencyData[i] > frequencyData[j]
                                 \/ frequencyData[i] = frequencyData[j] /\ i <= j
         IN  <<[frequency |-> first * SAMPLE_RATE * 10,
                magnitude |-> frequencyData[first],
                bin |-> first]>>
             \o sortByMagnitude(frequencyData, bins \ {first})

\* A variant that returns the first ten peaks in bin order, unsorted.
findFrequencyPeaksUnsorted(frequencyData) ==
    LET bins == peakBins(frequencyData)
        RECURSIVE inBinOrder(_)
        inBinOrder(rest) ==
            IF rest = {} THEN <<>>
            ELSE LET first == CHOOSE i \in rest : \A j \in rest : i <= j
                 IN  <<[frequency |-> first * SAMPLE_RATE * 10,
                        magnitude |-> frequencyData[first],
                        bin |-> first]>> \o inBinOrder(rest \ {first})
        pushed == inBinOrder(bins)
    IN  SubSeq(pushed, 1, Min(10, Len(pushed)))

findFrequencyPeaks(frequencyData) ==
    LET sorted == sortByMagnitude(frequencyData, peakBins(frequencyData))
    IN  SubSeq(sorted, 1, Min(10, Len(sorted)))

\* if (frequency >= 600 && frequency <= 800)
inOptimalRange(frequency) == frequency >= Hz(600) /\ frequency <= Hz(800)

\* The loop over the peaks: the strongest in-range peak seen so far.
RECURSIVE bestInRange(_, _, _)
bestInRange(found, i, best) ==
    IF i > Len(found) THEN best
    ELSE IF inOptimalRange(found[i].frequency) /\ found[i].magnitude > best.magnitude
    THEN bestInRange(found, i + 1,
                     [magnitude |-> found[i].magnitude, frequency |-> found[i].frequency])
    ELSE bestInRange(found, i + 1, best)

\* The sample onAudioFrame pushes at time t for the given peaks.
sampleOf(found, t) ==
    LET best == bestInRange(found, 1, [magnitude |-> Db(-100), frequency |-> Null])
    IN  [timestamp |-> t,
         frequency |-> best.frequency,
         magnitude |-> best.magnitude,
         isSignal |-> best.magnitude > processThreshold]

\* Array.prototype.slice(from, to) with negative indices, 1-based result.
sliceFromEnd(seq, from, to) ==
    SubSeq(seq, Max(1, Len(seq) - from + 1), Len(seq) - to)

hasSignal(samples) == \E i \in DOMAIN samples : samples[i].isSignal

\* The completion check of onAudioFrame: does this tick arm a settle timer?
patternJustEnded(history) ==
    /\ Len(history) > 25
    /\ hasSignal(sliceFromEnd(history, 50, 6))
    /\ ~hasSignal(sliceFromEnd(history, 6, 0))

analysisDelay(history) ==
    LET signalSamples == Cardinality({i \in DOMAIN history : history[i].isSignal})
    IN  IF signalSamples >= 20 /\ signalSamples <= 35 THEN 250 ELSE 100

\* analyser.frequencyBinCount
frequencyBinCount == FFT_SIZE \div 2

\* The spectra the microphone delivers: a quiet room, a tone at bin 33
\* (710.6 Hz), a tone at bin 49 (1055.1 Hz, inside the codec's research
\* band), and a faint tone at bin 30 (646.0 Hz) between the search and the
\* process threshold.
\* "crowded" is the tone at bin 33 at -40 dB among ten stronger tones further
\* up the spectrum (bins 100, 110, ..., 190, 2.2 to 4.1 kHz, at -30 dB).
FrameNames == {"silence", "tone", "codec", "faint", "crowded"}

tonesOf(frame) ==
    CASE frame = "tone" -> 33 :> Db(-40)
      [] frame = "codec" -> 49 :> Db(-30)
      [] frame = "faint" -> 30 :> Db(-50)
      [] frame = "crowded" ->
             (33 :> Db(-40)) @@ [i \in {100 + 10 * k : k \in 0..9} |-> Db(-30)]
      [] OTHER -> <<>>

\* What analyser.getFloatFrequencyData writes for each spectrum.
FrameData ==
    [frame \in FrameNames |->
        [i \in 0..(frequencyBinCount - 1) |->
            IF i \in DOMAIN tonesOf(frame) THEN tonesOf(frame)[i] ELSE Db(-100)]]

\* findFrequencyPeaks(frequencyData) for each spectrum.
FramePeaks == [frame \in FrameNames |-> findFrequencyPeaks(FrameData[frame])]

\* A variant that never drops old samples from the history.
onAudioFrameKeepsAll(frame, t) ==
    IF t - lastSelfPingTime < SELF_PING_COOLDOWN
    THEN UNCHANGED <<signalHistory, timers, peaks>>
    ELSE LET found == FramePeaks[frame]
             history == Append(signalHistory, sampleOf(found, t))
         IN  /\ peaks' = found
             /\ signalHistory' = history
             /\ timers' = IF patternJustEnded(history)
                          THEN timers \cup {[armedAt |-> t,
                                             due |-> t + analysisDelay(history),
                                             bestFrequency |-> history[Len(history)].frequency]}
                          ELSE timers

\* onAudioFrame(frequencyData) at Date.now() = t, frequencyData being
\* FrameData[frame].
onAudioFrame(frame, t) ==
    IF t - lastSelfPingTime < SELF_PING_COOLDOWN
    THEN UNCHANGED <<signalHistory, timers, peaks>>
    ELSE LET found == FramePeaks[frame]
             kept == SelectSeq(signalHistory,
                               LAMBDA sample : t - sample.timestamp < HISTORY_DURATION)
             history == Append(kept, sampleOf(found, t))
         IN  /\ peaks' = found
             /\ signalHistory' = history
             /\ timers' = IF patternJustEnded(history)
                          THEN timers \cup {[armedAt |-> t,
                                             due |-> t + analysisDelay(history),
                                             bestFrequency |-> history[Len(history)].frequency]}
                          ELSE timers

----------------------------------------------------------------------------
(* audio/receiver.js: analysis of the history when a settle timer fires    *)

\* getAverageFrequency(history), truncated to the model's frequency unit.
getAverageFrequency(history) ==
    LET validSamples == SelectSeq(history, LAMBDA sample : sample.frequency # Null)
    IN  IF Len(validSamples) = 0 THEN Null
        ELSE SumSeq([i \in DOMAIN validSamples |-> validSamples[i].frequency])
                 \div Len(validSamples)

closePulse(currentPulse) ==
    [startTime |-> currentPulse.startTime,
     endTime |-> currentPulse.endTime,
     startIndex |-> currentPulse.startIndex,
     endIndex |-> currentPulse.endIndex,
     maxMagnitude |-> currentPulse.maxMagnitude,
     frequency |-> currentPulse.frequency,
     duration |-> currentPulse.endTime - currentPulse.startTime]

\* A variant of the segmentation loop that forgets a pulse still open at the
\* end of the history.
RECURSIVE segmentFromDropsOpen(_, _, _, _, _, _)
segmentFromDropsOpen(history, i, frequency, open, currentPulse, pulseSequences) ==
    IF i > Len(history)
    THEN pulseSequences
    ELSE LET sample == history[i]
         IN  IF sample.magnitude > processThreshold
             THEN IF ~open
                  THEN segmentFromDropsOpen(history, i + 1, frequency, TRUE,
                           [startTime |-> sample.timestamp,
                            endTime |-> sample.timestamp,
                            startIndex |-> i - 1,
                            endIndex |-> i - 1,
                            maxMagnitude |-> sample.magnitude,
                            frequency |-> OrElse(sample.frequency, frequency)],
                           pulseSequences)
                  ELSE segmentFromDropsOpen(history, i + 1, frequency, TRUE,
                           [currentPulse EXCEPT
                               !.endTime = sample.timestamp,
                               !.endIndex = i - 1,
                               !.maxMagnitude = Max(@, sample.magnitude),
                               !.frequency =
                                   IF sample.magnitude > currentPulse.maxMagnitude
                                   THEN OrElse(sample.frequency, frequency) ELSE @],
                           pulseSequences)
             ELSE IF open
                  THEN segmentFromDropsOpen(history, i + 1, frequency, FALSE, currentPulse,
                                   Append(pulseSequences, closePulse(currentPulse)))
                  ELSE segmentFromDropsOpen(history, i + 1, frequency, FALSE, currentPulse,
                                   pulseSequences)

\* The segmentation loop from sample i on: open is whether currentPulse is
\* set, pulseSequences the pulses pushed so far.
RECURSIVE segmentFrom(_, _, _, _, _, _)
segmentFrom(history, i, frequency, open, currentPulse, pulseSequences) ==
    IF i > Len(history)
    THEN IF open THEN Append(pulseSequences, closePulse(currentPulse))
         ELSE pulseSequences
    ELSE LET sample == history[i]
         IN  IF sample.magnitude > processThreshold
             THEN IF ~open
                  THEN segmentFrom(history, i + 1, frequency, TRUE,
                           [startTime |-> sample.timestamp,
                            endTime |-> sample.timestamp,
                            startIndex |-> i - 1,
                            endIndex |-> i - 1,
                            maxMagnitude |-> sample.magnitude,
                            frequency |-> OrElse(sample.frequency, frequency)],
                           pulseSequences)
                  ELSE segmentFrom(history, i + 1, frequency, TRUE,
                           [currentPulse EXCEPT
                               !.endTime = sample.timestamp,
                               !.endIndex = i - 1,
                               !.maxMagnitude = Max(@, sample.magnitude),
                               !.frequency =
                                   IF sample.magnitude > currentPulse.maxMagnitude
                                   THEN OrElse(sample.frequency, frequency) ELSE @],
                           pulseSequences)
             ELSE IF open
                  THEN segmentFrom(history, i + 1, frequency, FALSE, currentPulse,
                                   Append(pulseSequences, closePulse(currentPulse)))
                  ELSE segmentFrom(history, i + 1, frequency, FALSE, currentPulse,
                                   pulseSequences)

pulseSequencesOf(history, frequency) ==
    segmentFrom(history, 1, frequency, FALSE, [startTime |-> 0], <<>>)

\* pulseSequences.reduce((prev, current) =>
\*     (prev.maxMagnitude > current.maxMagnitude) ? prev : current)
RECURSIVE strongestFrom(_, _, _)
strongestFrom(pulseSequences, i, prev) ==
    IF i > Len(pulseSequences) THEN prev
    ELSE strongestFrom(pulseSequences, i + 1,
             IF prev.maxMagnitude > pulseSequences[i].maxMagnitude
             THEN prev ELSE pulseSequences[i])

strongestPulseOf(pulseSequences) == strongestFrom(pulseSequences, 2, pulseSequences[1])

\* normalizeStrength(magnitudeDb): the position of the magnitude between
\* -60 dB and -10 dB, clamped, in units of 1/Db(50).
normalizeStrength(magnitudeDb) == Max(0, Min(Db(50), magnitudeDb - Db(-60)))

\* The detail of the pingDetected event analyzeSignalPattern builds.
pingEventOf(frequency, modelId, pulseSequences) ==
    LET strongestPulse == strongestPulseOf(pulseSequences)
    IN  [frequency |-> OrElse(frequency, strongestPulse.frequency),
         modelId |-> modelId,
         strength |-> normalizeStrength(strongestPulse.maxMagnitude),
         magnitude |-> strongestPulse.maxMagnitude,
         timestamp |-> pulseSequences[1].startTime,
         pattern |-> SUBMARINE_PATTERNS[modelId]]

\* A variant that, after a match, neither clears the history nor restarts
\* the detection cooldown.
matchAndDispatchKeepsHistory(frequency, t, pulseSequences) ==
    LET amplitudePattern == analyzeAmplitudePattern(pulseSequences)
        detectedPattern == matchSignalPattern(pulseSequences, amplitudePattern)
    IN  IF detectedPattern # NoMatch
        THEN LET pingEvent == pingEventOf(frequency, detectedPattern, pulseSequences)
             IN  /\ detected' = Append(detected, [at |-> t, after |-> Len(emitted),
                                                  detail |-> pingEvent])
                 /\ peers' = addPeer(peers, pingEvent)
                 /\ verdict' = [at |-> t, path |-> "matched"]
                 /\ UNCHANGED <<signalHistory, lastDetectionTime>>
        ELSE /\ lastDetectionTime' = t
             /\ signalHistory' = <<>>
             /\ verdict' = [at |-> t, path |-> "unmatched"]
             /\ UNCHANGED <<detected, peers>>

\* The steps analyzeSignalPattern takes once its guards have passed and
\* pulseSequences is not empty.
matchAndDispatch(frequency, t, pulseSequences) ==
    LET amplitudePattern == analyzeAmplitudePattern(pulseSequences)
        detectedPattern == matchSignalPattern(pulseSequences, amplitudePattern)
    IN  IF detectedPattern # NoMatch
        THEN LET pingEvent == pingEventOf(frequency, detectedPattern, pulseSequences)
             IN  \* dispatchEvent runs the application's listener, addPeer(event.detail)
                 /\ detected' = Append(detected, [at |-> t, after |-> Len(emitted),
                                                  detail |-> pingEvent])
                 /\ peers' = addPeer(peers, pingEvent)
                 /\ signalHistory' = <<>>
                 /\ lastDetectionTime' = t
                 /\ verdict' = [at |-> t, path |-> "matched"]
        ELSE /\ lastDetectionTime' = t
             /\ signalHistory' = <<>>
             /\ verdict' = [at |-> t, path |-> "unmatched"]
             /\ UNCHANGED <<detected, peers>>

\* A variant without the guard against detections within 800 ms.
analyzeSignalPatternNoCooldown(frequency, t) ==
    IF Len(signalHistory) < 25
    THEN /\ verdict' = [at |-> t, path |-> "few samples"]
         /\ UNCHANGED <<signalHistory, lastDetectionTime, detected, peers>>
    ELSE LET pulseSequences == pulseSequencesOf(signalHistory, frequency)
         IN  IF Len(pulseSequences) = 0
             THEN /\ verdict' = [at |-> t, path |-> "no pulse"]
                  /\ UNCHANGED <<signalHistory, lastDetectionTime, detected, peers>>
             ELSE matchAndDispatch(frequency, t, pulseSequences)

\* analyzeSignalPattern(frequency) at Date.now() = t.
analyzeSignalPattern(frequency, t) ==
    IF Len(signalHistory) < 25
    THEN /\ verdict' = [at |-> t, path |-> "few samples"]
         /\ UNCHANGED <<signalHistory, lastDetectionTime, detected, peers>>
    ELSE IF t - lastDetectionTime < DETECTION_COOLDOWN
    THEN /\ verdict' = [at |-> t, path |-> "cooldown"]
         /\ UNCHANGED <<signalHistory, lastDetectionTime, detected, peers>>
    ELSE LET pulseSequences == pulseSequencesOf(signalHistory, frequency)
         IN  IF Len(pulseSequences) = 0
             THEN /\ verdict' = [at |-> t, path |-> "no pulse"]
                  /\ UNCHANGED <<signalHistory, lastDetectionTime, detected, peers>>
             ELSE matchAndDispatch(frequency, t, pulseSequences)

----------------------------------------------------------------------------
(* The harness variables at rest.                                          *)

SegmentIdle ==
    /\ sHistory = <<>>
    /\ sDone = FALSE
    /\ sPulses = <<>>
    /\ framePeriod = 0
    /\ processThreshold = DETECTION_THRESHOLDS.SIGNAL_PROCESS
    /\ lastPeerCall = NoPeerCall
    /\ toneOut = "unset"

MatchIdle ==
    /\ mPulses = <<>>
    /\ mTrend = "unset"
    /\ mResult = "unset"
    /\ SegmentIdle

\* The result slot of the mapping harness before decodeFrequency is called.
NotDecoded == [submarineType |-> "unset", hue |-> -1, frequency |-> -1]

MappingIdle ==
    /\ dFreq = -1
    /\ dTol = DefaultTolerance
    /\ dOut = NotDecoded
    /\ wId = "research"
    /\ wForm = "unset"
    /\ wBack = "unset"

PeakIdle ==
    /\ pData = <<>>
    /\ pDone = FALSE
    /\ pOut = <<>>

CodecIdle ==
    /\ cId = "research"
    /\ cHue = 0
    /\ cFreq = -1
    /\ cOut = NoDecode
    /\ MappingIdle
    /\ PeakIdle

----------------------------------------------------------------------------
(* The running application: the receiver's animation-frame loop fed by the *)
(* microphone, its settle timers, and the user pressing the ping button.   *)

\* Date.now() when the receiver starts; the period of the animation-frame
\* loop; how long a run is followed; how many pulse trains the microphone
\* hears, how many settle timers may be pending at once, and how many times
\* the ping button is pressed.
StartTime == 10000
TickPeriod == 25
Horizon == 1550
MaxTrains == 1
MaxLag == 25
MaxCalls == 1

MaxTime == StartTime + Horizon

Repeat(frame, n) == [i \in 1..n |-> frame]

\* Pulse trains, one frame per tick: two long pulses 24 quiet ticks apart;
\* a long pulse in the codec's research band; a long pulse and, 22 quiet
\* ticks later, a short one.
Trains ==
    {Repeat("tone", 8) \o Repeat("silence", 24) \o Repeat("tone", 8),
     Repeat("codec", 9),
     Repeat("tone", 8) \o Repeat("silence", 22) \o Repeat("tone", 4)}

NoCall == [n |-> 0, hue |-> 0, modelId |-> "research", outcome |-> "none"]

EmitterInit(ready) ==
    /\ audioContext = ready
    /\ lastEmitTime = 0
    /\ oscillators = <<>>
    /\ emitted = <<>>
    /\ lastCall = NoCall
    /\ AUDIO_SETTINGS = DefaultAudioSettings

NoVerdict == [at |-> 0, path |-> "none"]

\* The startListening bookkeeping when startListening has run n times, each
\* time acquiring the microphone.
MicAfter(n) == [calls |-> n, attempts |-> n, pending |-> 0, denied |-> 0, thrown |-> 0]

ReceiverInit(listening) ==
    /\ isListening = listening
    /\ loops = IF listening THEN 1 ELSE 0
    /\ mic = MicAfter(IF listening THEN 1 ELSE 0)
    /\ lastSelfPingTime = 0
    /\ lastDetectionTime = 0
    /\ signalHistory = <<>>
    /\ timers = {}
    /\ detected = <<>>
    /\ peaks = <<>>
    /\ verdict = NoVerdict
    /\ peers = <<>>

\* The application before it is started.
AppIdle ==
    /\ now = StartTime
    /\ EmitterInit(FALSE)
    /\ ReceiverInit(FALSE)
    /\ tickAt = StartTime
    /\ feed = <<>>
    /\ trainsLeft = 0

\* The application once onSettingsChanged has initialised the audio context
\* and started the receiver, before the first animation frame.
Init ==
    /\ CodecIdle
    /\ MatchIdle
    /\ now = StartTime
    /\ EmitterInit(TRUE)
    /\ ReceiverInit(TRUE)
    /\ tickAt = StartTime - TickPeriod
    /\ feed = <<>>
    /\ trainsLeft = MaxTrains

\* analyzeFrame: one pass of the requestAnimationFrame loop over the spectrum
\* the analyser holds at that time.
analyzeFrame(frame) ==
    /\ isListening
    /\ tickAt + TickPeriod <= MaxTime
    /\ now' = tickAt + TickPeriod
    /\ tickAt' = tickAt + TickPeriod
    /\ onAudioFrame(frame, tickAt + TickPeriod)
    /\ \A timer \in timers : tickAt + TickPeriod <= timer.due + MaxLag
    /\ UNCHANGED <<isListening, lastSelfPingTime, lastDetectionTime, detected, peers,
                   verdict>>
    /\ UNCHANGED <<emitterVars, lifeVars>>

\* A frame of a train in progress.
TickTrain ==
    /\ feed # <<>>
    /\ analyzeFrame(Head(feed))
    /\ feed' = Tail(feed)
    /\ UNCHANGED <<trainsLeft, codecVars, matchVars>>

\* A frame of a quiet room.
TickSilence ==
    /\ feed = <<>>
    /\ analyzeFrame("silence")
    /\ UNCHANGED <<feed, trainsLeft, codecVars, matchVars>>

\* The first frame of a new train.
TickStart ==
    /\ feed = <<>>
    /\ trainsLeft > 0
    /\ \E train \in Trains :
           /\ analyzeFrame(Head(train))
           /\ feed' = Tail(train)
    /\ trainsLeft' = trainsLeft - 1
    /\ UNCHANGED <<codecVars, matchVars>>

\* The settle timer that is due first fires: on time when it falls due before
\* the next frame, late (by at most MaxLag) otherwise.
TimerFire ==
    \E timer \in timers :
        LET t == Max(now, timer.due)
        IN  /\ \A other \in timers : timer.due <= other.due
            /\ t <= tickAt + TickPeriod
            /\ t <= MaxTime
            /\ now' = t
            /\ timers' = timers \ {timer}
            /\ analyzeSignalPattern(
                   OrElse(timer.bestFrequency, getAverageFrequency(signalHistory)), t)
            /\ UNCHANGED <<isListening, lastSelfPingTime, peaks>>
            /\ UNCHANGED <<emitterVars, inputVars, lifeVars, codecVars, matchVars>>

\* The hue and identity the user has chosen in the setup screen.
AppSettings == {[hue |-> 128, modelId |-> "military"]}

\* The ping button: onPingClick calls emitPing(settings.hue, settings.modelId).
PingClick ==
    /\ lastCall.n < MaxCalls
    /\ \E settings \in AppSettings : emitPing(settings.hue, settings.modelId)
    /\ UNCHANGED <<now, peers, inputVars, lifeVars, codecVars, matchVars>>

Next == TickTrain \/ TickSilence \/ TickStart \/ TimerFire \/ PingClick

Spec == Init /\ [][Next]_vars

----------------------------------------------------------------------------
(* The codec harness: encode an (identity, hue) and decode the result.     *)

CodecInit ==
    /\ MatchIdle
    /\ AppIdle
    /\ MappingIdle
    /\ PeakIdle
    /\ cId \in Identities
    /\ cHue \in 0..HueMax
    /\ cFreq = -1
    /\ cOut = NoDecode

Encode ==
    /\ cFreq = -1
    /\ cFreq' = getSubmarineFrequency(cId, cHue)
    /\ UNCHANGED <<cId, cHue, cOut, mappingVars, peakVars, matchVars, appVars>>

Decode ==
    /\ cFreq # -1
    /\ cOut = NoDecode
    /\ cOut' = decodeFrequency(cFreq, DefaultTolerance)
    /\ UNCHANGED <<cId, cHue, cFreq, mappingVars, peakVars, matchVars, appVars>>

CodecNext == Encode \/ Decode

SpecCodec == CodecInit /\ [][CodecNext]_vars

----------------------------------------------------------------------------
(* The mapping harness: decodeFrequency is called with a frequency from a  *)
(* half-Hz grid around the bands (and the band edges to one model unit)    *)
(* and a tolerance; getWaveform is called with an identity and             *)
(* getModelFromWaveform with its result.                                   *)

\* The grid's extent in Hz.
ProbeLow == 700
ProbeHigh == 1600

\* Tolerances in Hz: none, the default, and one that makes the widened bands
\* overlap.
Tolerances == {0, DefaultTolerance, 60}

\* The frequencies mapping.test.js decodes, in Hz.
TestedFrequencies == {400, 475, 500, 575, 600, 675, 700, 775}

ProbeFrequencies ==
    {Tenths(5 * k) : k \in (2 * ProbeLow)..(2 * ProbeHigh)}
        \cup {Hz(f) : f \in TestedFrequencies}
        \cup UNION {{Hz(SUBMARINE_FREQUENCY_RANGES[id].min - tol) + e,
                     Hz(SUBMARINE_FREQUENCY_RANGES[id].min) + e,
                     Hz(SUBMARINE_FREQUENCY_RANGES[id].max) + e,
                     Hz(SUBMARINE_FREQUENCY_RANGES[id].max + tol) + e} :
                        <<id, tol, e>> \in Identities \X Tolerances \X {-1, 1}}

MappingInit ==
    /\ MatchIdle
    /\ AppIdle
    /\ cId = "research"
    /\ cHue = 0
    /\ cFreq = -1
    /\ cOut = NoDecode
    /\ dFreq \in ProbeFrequencies
    /\ dTol \in Tolerances
    /\ dOut = NotDecoded
    /\ wId \in ModelIds
    /\ wForm = "unset"
    /\ wBack = "unset"
    /\ PeakIdle

DecodeProbe ==
    /\ dOut = NotDecoded
    /\ dOut' = decodeFrequency(dFreq, dTol)
    /\ UNCHANGED <<cId, cHue, cFreq, cOut, dFreq, dTol, wId, wForm, wBack, peakVars,
                   matchVars, appVars>>

AskWaveform ==
    /\ wForm = "unset"
    /\ wForm' = getWaveform(wId)
    /\ UNCHANGED <<cId, cHue, cFreq, cOut, dFreq, dTol, dOut, wId, wBack, peakVars,
                   matchVars, appVars>>

AskModel ==
    /\ wForm # "unset"
    /\ wBack = "unset"
    /\ wBack' = getModelFromWaveform(wForm)
    /\ UNCHANGED <<cId, cHue, cFreq, cOut, dFreq, dTol, dOut, wId, wForm, peakVars,
                   matchVars, appVars>>

MappingNext == DecodeProbe \/ AskWaveform \/ AskModel

SpecMapping == MappingInit /\ [][MappingNext]_vars

----------------------------------------------------------------------------
(* The dual-tone profile (src/unnamed/part_001) and its harness:           *)
(* getSubmarineFromFrequency is called with a frequency from a half-Hz     *)
(* grid over the identity tones and with the default tolerance or half of  *)
(* it.                                                                     *)

\* The identity tones, in Hz.
SUBMARINE_FREQUENCIES ==
    [research |-> 520, military |-> 540, tourist |-> 560, robotic |-> 580]

\* The entries of FREQUENCY_TO_SUBMARINE in the order Object.entries yields
\* them: integer keys ascending.
FREQUENCY_TO_SUBMARINE ==
    <<[freq |-> 520, modelId |-> "research"],
      [freq |-> 540, modelId |-> "military"],
      [freq |-> 560, modelId |-> "tourist"],
      [freq |-> 580, modelId |-> "robotic"]>>

\* The default of getSubmarineFromFrequency's tolerance parameter, in Hz.
TONE_TOLERANCE == 10

\* |frequency - parseInt(freq)| <= tolerance
withinTone(frequency, freq, tolerance) ==
    /\ frequency - Hz(freq) <= Hz(tolerance)
    /\ Hz(freq) - frequency <= Hz(tolerance)

\* The loop of getSubmarineFromFrequency over the given entries: the first
\* entry within tolerance wins.
firstWithin(entries, frequency, tolerance) ==
    LET hits == {i \in DOMAIN entries : withinTone(frequency, entries[i].freq, tolerance)}
    IN  IF hits = {} THEN NoMatch
        ELSE entries[CHOOSE i \in hits : \A j \in hits : i <= j].modelId

getSubmarineFromFrequency(frequency, tolerance) ==
    firstWithin(FREQUENCY_TO_SUBMARINE, frequency, tolerance)

\* The grid's extent in Hz.
ToneProbeLow == 500
ToneProbeHigh == 600

ToneProbes == {Tenths(5 * k) : k \in (2 * ToneProbeLow)..(2 * ToneProbeHigh)}

ToneTolerances == {TONE_TOLERANCE, TONE_TOLERANCE \div 2}

DualToneInit ==
    /\ MatchIdle
    /\ AppIdle
    /\ cId = "research"
    /\ cHue = 0
    /\ cFreq = -1
    /\ cOut = NoDecode
    /\ dFreq \in ToneProbes
    /\ dTol \in ToneTolerances
    /\ dOut = NotDecoded
    /\ wId = "research"
    /\ wForm = "unset"
    /\ wBack = "unset"
    /\ PeakIdle

DecodeTone ==
    /\ toneOut = "unset"
    /\ toneOut' = getSubmarineFromFrequency(dFreq, dTol)
    /\ UNCHANGED <<mPulses, mTrend, mResult, segmentVars, framePeriod, processThreshold,
                   lastPeerCall, codecVars, appVars>>

DualToneNext == DecodeTone

SpecDualTone == DualToneInit /\ [][DualToneNext]_vars

----------------------------------------------------------------------------
(* The peak harness: findFrequencyPeaks is called with a spectrum of       *)
(* PeakBins bins that is quiet except for one or two tones anywhere in it, *)
(* or for a comb of evenly spaced tones.                                   *)

\* The length of the harness's spectra.
PeakBins == 80

\* Tone levels: below the search threshold, just above it, strong.
ToneLevels == {Db(-60), Db(-50), Db(-30)}

\* The distance between the two tones, 0 for a single tone.
ToneGaps == {0, 1, 5, 6}

\* The distance between the teeth of a comb, and how their levels run.
CombSpacings == {5, 6, 7}
CombShapes == {"quiet", "flat", "rising", "falling"}

spectrumOf(tones) ==
    [i \in 0..(PeakBins - 1) |-> IF i \in DOMAIN tones THEN tones[i] ELSE Db(-100)]

twoTones(a, gap, la, lb) ==
    IF gap = 0 \/ a + gap >= PeakBins THEN a :> la ELSE (a :> la) @@ ((a + gap) :> lb)

comb(spacing, shape) ==
    [i \in {spacing * k : k \in 1..((PeakBins - 1) \div spacing)} |->
        CASE shape = "quiet" -> Db(-60)
          [] shape = "flat" -> Db(-40)
          [] shape = "rising" -> Db(-50) + 100 * (i \div spacing)
          [] OTHER -> Db(-30) - 100 * (i \div spacing)]

PeakSpectra ==
    {spectrumOf(twoTones(a, gap, la, lb)) :
        <<a, gap, la, lb>> \in (0..(PeakBins - 1)) \X ToneGaps \X ToneLevels \X ToneLevels}
    \cup {spectrumOf(comb(spacing, shape)) :
              <<spacing, shape>> \in CombSpacings \X CombShapes}
    \cup {spectrumOf(<<>>)}

PeakInit ==
    /\ MatchIdle
    /\ AppIdle
    /\ cId = "research"
    /\ cHue = 0
    /\ cFreq = -1
    /\ cOut = NoDecode
    /\ MappingIdle
    /\ pData \in PeakSpectra
    /\ pDone = FALSE
    /\ pOut = <<>>

FindPeaks ==
    /\ ~pDone
    /\ pDone' = TRUE
    /\ pOut' = findFrequencyPeaks(pData)
    /\ UNCHANGED <<cId, cHue, cFreq, cOut, mappingVars, pData, matchVars, appVars>>

PeakNext == FindPeaks

SpecPeaks == PeakInit /\ [][PeakNext]_vars

----------------------------------------------------------------------------
(* The matcher harness: an observed pulse sequence is tagged with an       *)
(* amplitude trend (by analyzeAmplitudePattern, or by the caller) and      *)
(* handed to matchSignalPattern.                                           *)

MaxPulses == 4

\* Pulse durations, inter-pulse gaps (ms) and peak levels offered as inputs:
\* the canonical values and the values on either side of each acceptance
\* boundary.
Durations == {100, 149, 150, 200, 300, 301}
Gaps == {24, 25, 40, 50, 55, 56, 66, 75, 96}
Levels == {Db(-40), Db(-38), Db(-37)}

\* The canonical pulse duration and silence of the emitter's train of n pulses.
canonicalDuration(n) == IF n = 2 THEN 150 ELSE IF n = 3 THEN 100 ELSE 80
canonicalGap(n) == IF n = 2 THEN 75 ELSE IF n = 3 THEN 50 ELSE 40

RECURSIVE startOf(_, _, _)
startOf(k, duration, gaps) ==
    IF k = 1 THEN 0 ELSE startOf(k - 1, duration, gaps) + duration + gaps[k - 1]

\* The pulse sequence segmentation reports for n pulses of one duration.
trainOf(n, duration, gaps, levels) ==
    [k \in 1..n |->
        [startTime |-> startOf(k, duration, gaps),
         endTime |-> startOf(k, duration, gaps) + duration,
         duration |-> duration,
         maxMagnitude |-> levels[k]]]

TimingTrains ==
    {trainOf(1, d, <<>>, <<Db(-40)>>) : d \in Durations}
    \cup UNION {{trainOf(n, canonicalDuration(n), g, [k \in 1..n |-> Db(-40)]) :
                    g \in [1..(n - 1) -> Gaps]} : n \in 2..MaxPulses}

AmplitudeTrains ==
    UNION {{trainOf(n, canonicalDuration(n), [k \in 1..(n - 1) |-> canonicalGap(n)], l) :
                l \in [1..n -> Levels]} : n \in 2..MaxPulses}

\* 20 * log10(gain) for the gains of the emitter's table, gain in hundredths,
\* the result in hundredths of dB, rounded.
gainToDb(gain) ==
    CASE gain = 30 -> -1046
      [] gain = 40 -> -796
      [] gain = 50 -> -602
      [] OTHER -> 0

\* The levels (dB) at which a pulse of gain 1.0 is received.
ReceptionLevels == {Db(-24), Db(-30)}

\* The pulse sequence an undistorted reception of an identity's emission
\* gives: the emitter's durations and silences, each peak the pulse's gain
\* in dB plus the reception level.
receivedTrain(modelId, level) ==
    LET timing == EMITTER_PATTERNS[modelId].timing
        gains == EMITTER_PATTERNS[modelId].gains
    IN  [k \in 1..CeilHalf(Len(timing)) |->
            [startTime |-> pulseOffset(timing, k),
             endTime |-> pulseOffset(timing, k) + timing[2 * k - 1],
             duration |-> timing[2 * k - 1],
             maxMagnitude |-> level + gainToDb(gains[k])]]

EmittedMultiPulse == {modelId \in DOMAIN EMITTER_PATTERNS :
                         Len(EMITTER_PATTERNS[modelId].timing) > 1}

ReceivedTrains ==
    {receivedTrain(modelId, level) : modelId \in EmittedMultiPulse,
                                     level \in ReceptionLevels}

MatchInit ==
    /\ CodecIdle
    /\ AppIdle
    /\ mPulses \in TimingTrains \cup AmplitudeTrains \cup ReceivedTrains
    /\ mTrend = "unset"
    /\ mResult = "unset"
    /\ SegmentIdle

AnalyzeTrend ==
    /\ mTrend = "unset"
    /\ mTrend' = analyzeAmplitudePattern(mPulses)
    /\ UNCHANGED <<mPulses, mResult, segmentVars, framePeriod, processThreshold,
                   lastPeerCall, toneOut, codecVars, appVars>>

TagTrend ==
    /\ mTrend = "unset"
    /\ mTrend' \in Trends
    /\ UNCHANGED <<mPulses, mResult, segmentVars, framePeriod, processThreshold,
                   lastPeerCall, toneOut, codecVars, appVars>>

Match ==
    /\ mTrend # "unset"
    /\ mResult = "unset"
    /\ mResult' = matchSignalPattern(mPulses, mTrend)
    /\ UNCHANGED <<mPulses, mTrend, segmentVars, framePeriod, processThreshold,
                   lastPeerCall, toneOut, codecVars, appVars>>

MatchNext == AnalyzeTrend \/ TagTrend \/ Match

SpecMatch == MatchInit /\ [][MatchNext]_vars

----------------------------------------------------------------------------
(* The train harness: the receiver is listening in a quiet room and hears, *)
(* LeadTicks frames after its first frame, one pulse train and silence     *)
(* from then on.  feed holds the whole recording and is played by time.    *)

LeadTicks == 13

\* One pulse of research length; three short pulses one quiet frame apart;
\* three pulses five quiet frames apart, 700 ms from first to last frame;
\* two pulses ten quiet frames apart, 675 ms from first to last frame; one
\* pulse of research length among stronger tones outside the band.
SingleTrains ==
    {Repeat("tone", 7),
     Repeat("tone", 5) \o <<"silence">> \o Repeat("tone", 5) \o <<"silence">>
         \o Repeat("tone", 5),
     Repeat("tone", 8) \o Repeat("silence", 5) \o Repeat("tone", 8)
         \o Repeat("silence", 5) \o Repeat("tone", 3),
     Repeat("tone", 7) \o Repeat("silence", 10) \o Repeat("tone", 11),
     Repeat("crowded", 7)}

TrainInit ==
    /\ CodecIdle
    /\ MatchIdle
    /\ now = StartTime
    /\ EmitterInit(TRUE)
    /\ ReceiverInit(TRUE)
    /\ tickAt = StartTime - TickPeriod
    /\ feed \in {Repeat("silence", LeadTicks) \o train : train \in SingleTrains}
    /\ trainsLeft = 0

\* The frame the analyser holds at the tick at time t.
frameAt(t) ==
    LET k == (t - StartTime) \div TickPeriod + 1
    IN  IF k \in DOMAIN feed THEN feed[k] ELSE "silence"

\* One pass of the requestAnimationFrame loop.
TrainFrame ==
    /\ analyzeFrame(frameAt(tickAt + TickPeriod))
    /\ UNCHANGED <<feed, trainsLeft, codecVars, matchVars>>

TrainNext == TrainFrame \/ TimerFire

SpecTrain == TrainInit /\ [][TrainNext]_vars

----------------------------------------------------------------------------
(* The cadence harness: the receiver listens in a quiet room with one      *)
(* animation frame every framePeriod ms; PulseAfter ms after the start a   *)
(* tone sounds for PulseLength ms, then the room is quiet again.           *)

\* Frame periods in the tens of Hz: 60, 40, 30 and 20 frames a second.
FramePeriods == {16, 25, 33, 50}

PulseAfter == 1000
PulseLength == 200
CadenceHorizon == 2400

CadenceInit ==
    /\ CodecIdle
    /\ mPulses = <<>>
    /\ mTrend = "unset"
    /\ mResult = "unset"
    /\ sHistory = <<>>
    /\ sDone = FALSE
    /\ sPulses = <<>>
    /\ framePeriod \in FramePeriods
    /\ processThreshold = DETECTION_THRESHOLDS.SIGNAL_PROCESS
    /\ lastPeerCall = NoPeerCall
    /\ toneOut = "unset"
    /\ now = StartTime
    /\ EmitterInit(TRUE)
    /\ ReceiverInit(TRUE)
    /\ tickAt = StartTime
    /\ feed = <<>>
    /\ trainsLeft = 0

\* The spectrum the analyser holds at time t.
heardAt(t) ==
    IF t - StartTime >= PulseAfter /\ t - StartTime < PulseAfter + PulseLength
    THEN "tone" ELSE "silence"

\* One pass of the requestAnimationFrame loop, framePeriod after the last.
CadenceFrame ==
    LET t == tickAt + framePeriod
    IN  /\ isListening
        /\ t <= StartTime + CadenceHorizon
        /\ \A timer \in timers : t <= timer.due + MaxLag
        /\ now' = t
        /\ tickAt' = t
        /\ onAudioFrame(heardAt(t), t)
        /\ UNCHANGED <<isListening, lastSelfPingTime, lastDetectionTime, detected, peers,
                       verdict, feed, trainsLeft>>
        /\ UNCHANGED <<emitterVars, lifeVars, codecVars, matchVars>>

\* The settle timer that is due first fires, before the next frame.
CadenceTimer ==
    \E timer \in timers :
        LET t == Max(now, timer.due)
        IN  /\ \A other \in timers : timer.due <= other.due
            /\ t <= tickAt + framePeriod
            /\ now' = t
            /\ timers' = timers \ {timer}
            /\ analyzeSignalPattern(
                   OrElse(timer.bestFrequency, getAverageFrequency(signalHistory)), t)
            /\ UNCHANGED <<isListening, lastSelfPingTime, peaks>>
            /\ UNCHANGED <<emitterVars, inputVars, lifeVars, codecVars, matchVars>>

CadenceNext == CadenceFrame \/ CadenceTimer

SpecCadence == CadenceInit /\ [][CadenceNext]_vars

----------------------------------------------------------------------------
(* The segmenter harness: the segmentation loop of analyzeSignalPattern is *)
(* run on a history of up to MaxSamples samples, one per tick, each quiet, *)
(* faint, exactly at the process threshold, or a tone of one of two levels *)
(* and frequencies.                                                        *)

MaxSamples == 5

SampleKinds == {"quiet", "faint", "edge", "tone", "loud"}

\* The sample onAudioFrame records at time t for each kind of frame.
sampleOfKind(kind, t) ==
    LET level == CASE kind = "quiet" -> Db(-100)
                   [] kind = "faint" -> Db(-50)
                   [] kind = "edge" -> Db(-45)
                   [] kind = "tone" -> Db(-40)
                   [] OTHER -> Db(-30)
        bin == CASE kind = "faint" -> 30
                 [] kind = "edge" -> 32
                 [] kind = "tone" -> 33
                 [] OTHER -> 31
    IN  [timestamp |-> t,
         frequency |-> IF kind = "quiet" THEN Null ELSE bin * SAMPLE_RATE * 10,
         magnitude |-> level,
         isSignal |-> level > DETECTION_THRESHOLDS.SIGNAL_PROCESS]

\* The history onAudioFrame has recorded after one tick for each of kinds.
historyOfKinds(kinds) ==
    [i \in DOMAIN kinds |-> sampleOfKind(kinds[i], StartTime + (i - 1) * TickPeriod)]

SegmentInit ==
    /\ CodecIdle
    /\ AppIdle
    /\ mPulses = <<>>
    /\ mTrend = "unset"
    /\ mResult = "unset"
    /\ \E n \in 0..MaxSamples :
           \E kinds \in [1..n -> SampleKinds] : sHistory = historyOfKinds(kinds)
    /\ sDone = FALSE
    /\ sPulses = <<>>
    /\ framePeriod = 0
    /\ processThreshold = DETECTION_THRESHOLDS.SIGNAL_PROCESS
    /\ lastPeerCall = NoPeerCall
    /\ toneOut = "unset"

\* The segmentation loop, with the frequency the settle timer passes.
Segment ==
    /\ ~sDone
    /\ sDone' = TRUE
    /\ \E frequency \in {Null, 30 * SAMPLE_RATE * 10} :
           sPulses' = pulseSequencesOf(sHistory, frequency)
    /\ UNCHANGED <<mPulses, mTrend, mResult, sHistory, framePeriod, processThreshold,
                   lastPeerCall, toneOut, codecVars, appVars>>

\* The values (dB) the threshold slider is moved to.
SliderThresholds == {Db(-55), Db(-35)}

\* setDetectionThresholds(newThresholds): Object.assign, called by the
\* threshold slider with { SIGNAL_PROCESS: threshold }.
setDetectionThresholds(newThresholds) ==
    processThreshold' = newThresholds.SIGNAL_PROCESS

\* The threshold slider is moved after the history was recorded.
ThresholdInput ==
    /\ ~sDone
    /\ processThreshold = DETECTION_THRESHOLDS.SIGNAL_PROCESS
    /\ \E threshold \in SliderThresholds :
           setDetectionThresholds([SIGNAL_PROCESS |-> threshold])
    /\ UNCHANGED <<mPulses, mTrend, mResult, segmentVars, framePeriod, lastPeerCall,
                   toneOut, codecVars, appVars>>

SegmentNext == Segment \/ ThresholdInput

SpecSegment == SegmentInit /\ [][SegmentNext]_vars

----------------------------------------------------------------------------
(* The emitter harness: emitPing is called with any hue and identity, at   *)
(* any of the offered distances from the previous call, before and after   *)
(* the audio context is initialised.                                       *)

MaxEmitCalls == 3
EmitHorizon == 4500

\* Hues and waits (ms) offered as inputs: the ends and the middle of the hue
\* range; waits that land on either side of the cooldown.
EmitHues == {0, 128, 255}
Waits == {1000, 1999, 2000}

EmitInit ==
    /\ CodecIdle
    /\ MatchIdle
    /\ AppIdle

InitAudio ==
    /\ ~audioContext
    /\ initAudioContext
    /\ UNCHANGED <<now, peers, receiverVars, inputVars, lifeVars, codecVars, matchVars>>

EmitCall ==
    /\ lastCall.n < MaxEmitCalls
    /\ \E hue \in EmitHues, modelId \in ModelIds : emitPing(hue, modelId)
    /\ UNCHANGED <<now, peers, inputVars, lifeVars, codecVars, matchVars>>

Wait ==
    /\ \E wait \in Waits :
           /\ now + wait <= StartTime + EmitHorizon
           /\ now' = now + wait
    /\ UNCHANGED <<peers, emitterVars, receiverVars, inputVars, lifeVars, codecVars,
                   matchVars>>

\* The volumes (percent) the slider is moved to.
Volumes == {20}

\* The volume slider: setAudioSettings({ PING_GAIN: volume / 100 }).
VolumeInput ==
    /\ \E volume \in Volumes : setAudioSettings([PING_GAIN |-> volume])
    /\ UNCHANGED <<now, peers, receiverVars, inputVars, lifeVars, codecVars, matchVars>>

EmitNext == InitAudio \/ EmitCall \/ Wait \/ VolumeInput

SpecEmit == EmitInit /\ [][EmitNext]_vars

----------------------------------------------------------------------------
(* audio/receiver.js: starting and stopping the receiver.                  *)
(* startListening awaits getUserMedia, so a call is two steps: the call up *)
(* to the await, and the continuation when the request resolves or rejects.*)

\* How long a lifecycle run is followed, and how many times startListening
\* is called.
LifeHorizon == 750
MaxStarts == 1

LifeMaxTime == StartTime + LifeHorizon

\* The spectrum the analyser holds between two animation frames.
currentFrame == IF feed = <<>> THEN "silence" ELSE Head(feed)

\* n passes of analyzeFrame within one animation frame at Date.now() = t, one
\* for each callback requestAnimationFrame holds: each pass prunes the
\* history, pushes the frame's sample and may arm a settle timer.
onAudioFrameTimes(frame, t, n) ==
    IF t - lastSelfPingTime < SELF_PING_COOLDOWN
    THEN UNCHANGED <<signalHistory, timers, peaks>>
    ELSE LET found == FramePeaks[frame]
             kept == SelectSeq(signalHistory,
                               LAMBDA sample : t - sample.timestamp < HISTORY_DURATION)
             historyAt(k) == kept \o [i \in 1..k |-> sampleOf(found, t)]
         IN  /\ peaks' = found
             /\ signalHistory' = historyAt(n)
             /\ timers' = timers \cup
                    {[armedAt |-> t,
                      due |-> t + analysisDelay(historyAt(k)),
                      bestFrequency |-> sampleOf(found, t).frequency] :
                         k \in {j \in 1..n : patternJustEnded(historyAt(j))}}

\* startListening() up to `await getUserMedia`.
startListeningCall ==
    IF isListening
    THEN mic' = [mic EXCEPT !.calls = @ + 1]
    ELSE mic' = [mic EXCEPT !.calls = @ + 1, !.attempts = @ + 1, !.pending = @ + 1]

\* The rest of the try block once getUserMedia resolves, at Date.now() = t:
\* isListening = true, then startAudioAnalysis() runs analyzeFrame once on
\* the spot and leaves one callback with requestAnimationFrame.
startListeningResolved(frame, t) ==
    /\ mic' = [mic EXCEPT !.pending = @ - 1]
    /\ isListening' = TRUE
    /\ loops' = loops + 1
    /\ onAudioFrameTimes(frame, t, 1)

\* A variant that marks the receiver as listening before the microphone is
\* acquired.
startListeningRejectedListening ==
    /\ mic' = [mic EXCEPT !.pending = @ - 1, !.denied = @ + 1, !.thrown = @ + 1]
    /\ isListening' = TRUE
    /\ UNCHANGED <<loops, signalHistory, timers, peaks>>

\* The catch block when getUserMedia rejects: dispatch micPermissionDenied
\* and rethrow.
startListeningRejected ==
    /\ mic' = [mic EXCEPT !.pending = @ - 1, !.denied = @ + 1, !.thrown = @ + 1]
    /\ UNCHANGED <<isListening, loops, signalHistory, timers, peaks>>

\* stopListening().
stopListening ==
    IF ~isListening
    THEN UNCHANGED isListening
    ELSE isListening' = FALSE

\* What the microphone hears from the first animation frame on: one long
\* pulse, three pulses one quiet frame apart, or one long pulse and, 16
\* quiet frames later, a faint tone of another frequency.
LifeTrains ==
    {Repeat("tone", 8),
     Repeat("tone", 5) \o <<"silence">> \o Repeat("tone", 5) \o <<"silence">>
         \o Repeat("tone", 5),
     Repeat("tone", 8) \o Repeat("silence", 16) \o Repeat("faint", 3)}

\* The application loaded, the audio context ready, the receiver not started.
LifeInit ==
    /\ CodecIdle
    /\ MatchIdle
    /\ now = StartTime
    /\ EmitterInit(TRUE)
    /\ ReceiverInit(FALSE)
    /\ tickAt = StartTime
    /\ feed \in LifeTrains
    /\ trainsLeft = 0

StartCall ==
    /\ mic.calls < MaxStarts
    /\ startListeningCall
    /\ UNCHANGED <<now, receiverVars, loops, peers, emitterVars, inputVars, codecVars,
                   matchVars>>

AcquireGranted ==
    /\ mic.pending > 0
    /\ startListeningResolved(currentFrame, now)
    /\ UNCHANGED <<now, lastSelfPingTime, lastDetectionTime, detected, verdict, peers,
                   emitterVars, inputVars, codecVars, matchVars>>

AcquireDenied ==
    /\ mic.pending > 0
    /\ startListeningRejected
    /\ UNCHANGED <<now, lastSelfPingTime, lastDetectionTime, detected, verdict, peers,
                   emitterVars, inputVars, codecVars, matchVars>>

StopCall ==
    /\ stopListening
    /\ UNCHANGED <<now, lastSelfPingTime, lastDetectionTime, signalHistory, timers,
                   detected, peaks, verdict, peers, lifeVars, emitterVars, inputVars,
                   codecVars, matchVars>>

\* One animation frame: every callback requestAnimationFrame holds runs
\* analyzeFrame, which returns without requesting another frame when the
\* receiver is not listening.
animationFrame(frame) ==
    /\ tickAt + TickPeriod <= LifeMaxTime
    /\ \A timer \in timers : tickAt + TickPeriod <= timer.due + MaxLag
    /\ now' = tickAt + TickPeriod
    /\ tickAt' = tickAt + TickPeriod
    /\ IF isListening
       THEN /\ onAudioFrameTimes(frame, tickAt + TickPeriod, loops)
            /\ UNCHANGED loops
       ELSE /\ loops' = 0
            /\ UNCHANGED <<signalHistory, timers, peaks>>
    /\ UNCHANGED <<isListening, mic, lastSelfPingTime, lastDetectionTime, detected,
                   peers, verdict, emitterVars>>

FrameTrain ==
    /\ feed # <<>>
    /\ animationFrame(Head(feed))
    /\ feed' = Tail(feed)
    /\ UNCHANGED <<trainsLeft, codecVars, matchVars>>

FrameSilence ==
    /\ feed = <<>>
    /\ animationFrame("silence")
    /\ UNCHANGED <<feed, trainsLeft, codecVars, matchVars>>

LifeNext ==
    \/ StartCall
    \/ AcquireGranted
    \/ AcquireDenied
    \/ StopCall
    \/ FrameTrain
    \/ FrameSilence
    \/ TimerFire

SpecLife == LifeInit /\ [][LifeNext]_vars

----------------------------------------------------------------------------
(* The loop harness: the application loaded in a quiet room; startListening*)
(* is called up to MaxLoopStarts times, as onSettingsChanged does for every*)
(* settings change that arrives before the first call has returned, and    *)
(* stopListening at any time.                                              *)

\* How many times startListening is called and how long the run is followed.
MaxLoopStarts == 2
LoopHorizon == 200

LoopInit ==
    /\ CodecIdle
    /\ MatchIdle
    /\ now = StartTime
    /\ EmitterInit(TRUE)
    /\ ReceiverInit(FALSE)
    /\ tickAt = StartTime
    /\ feed = <<>>
    /\ trainsLeft = 0

\* onSettingsChanged while isInitialized is still false: startListening().
SettingsStart ==
    /\ mic.calls < MaxLoopStarts
    /\ startListeningCall
    /\ UNCHANGED <<now, receiverVars, loops, peers, emitterVars, inputVars, codecVars,
                   matchVars>>

\* An animation frame of the quiet room.
LoopFrame ==
    /\ tickAt + TickPeriod <= StartTime + LoopHorizon
    /\ animationFrame("silence")
    /\ UNCHANGED <<feed, trainsLeft, codecVars, matchVars>>

LoopNext == SettingsStart \/ AcquireGranted \/ StopCall \/ LoopFrame

SpecLoops == LoopInit /\ [][LoopNext]_vars

----------------------------------------------------------------------------
(* The registry harness: the registry starts as some number of detections  *)
(* of distinct peers have left it, and the registry functions are then     *)
(* called in any order, addPeer with pings of stored and of new peers      *)
(* whose timestamps lie before, among and after the stored ones.           *)

MaxPeerCalls == 3
RegistryWait == 1100
RegistryHorizon == 2200

\* The number of detections before the first call, and how their
\* timestamps run in the order of detection.
InitialSizes == {0, MAX_PEERS - 1, MAX_PEERS}
TimestampOrders == {"ascending", "equal", "descending"}

\* The ping of the k-th peer: peers differ by the detected frequency.
pingOf(k, timestamp) ==
    [frequency |-> Hz(600 + k), modelId |-> "research", strength |-> 50,
     magnitude |-> Db(-40), timestamp |-> timestamp, pattern |-> "research"]

initialTimestamp(k, order) ==
    CASE order = "ascending" -> StartTime + 10 * k
      [] order = "descending" -> StartTime + 10 * (MAX_PEERS + 1 - k)
      [] OTHER -> StartTime + 100

\* The registry after the first n peers were detected once each: addPeer
\* appends each record, n being at most MAX_PEERS.
detectedPeers(n, order) ==
    [k \in 1..n |-> peerOf(pingOf(k, initialTimestamp(k, order)))]

\* The pings offered to addPeer: the first stored peer, the same peer heard a
\* fraction of a hertz off, and a peer never stored, each with a timestamp
\* before, among and after the stored ones.
PingTimes == {StartTime - 500, StartTime + 100, StartTime + 3000}

OfferedPings ==
    {pingOf(k, t) : k \in {1, MAX_PEERS + 1}, t \in PingTimes}
        \cup {[pingOf(1, t) EXCEPT !.frequency = Hz(601) + 1000] : t \in PingTimes}

RegistryInit ==
    /\ CodecIdle
    /\ MatchIdle
    /\ now = StartTime
    /\ EmitterInit(FALSE)
    /\ isListening = FALSE
    /\ loops = 0
    /\ mic = MicAfter(0)
    /\ lastSelfPingTime = 0
    /\ lastDetectionTime = 0
    /\ signalHistory = <<>>
    /\ timers = {}
    /\ detected = <<>>
    /\ peaks = <<>>
    /\ verdict = NoVerdict
    /\ tickAt = StartTime
    /\ feed = <<>>
    /\ trainsLeft = 0
    /\ \E n \in InitialSizes, order \in TimestampOrders : peers = detectedPeers(n, order)

peerCall(op, given, returned) ==
    /\ lastPeerCall.n < MaxPeerCalls
    /\ lastPeerCall' = [n |-> lastPeerCall.n + 1, op |-> op, given |-> given,
                        returned |-> returned]
    /\ UNCHANGED <<mPulses, mTrend, mResult, segmentVars, framePeriod, processThreshold,
                   toneOut, codecVars, now, emitterVars, isListening, lastSelfPingTime,
                   lastDetectionTime, signalHistory, timers, detected, peaks, verdict,
                   inputVars, lifeVars>>

AddPeerCall ==
    \E pingEvent \in OfferedPings :
        /\ peers' = addPeer(peers, pingEvent)
        /\ peerCall("addPeer", <<pingEvent>>, addPeerReturn(peers, pingEvent))

RemovePeerCall ==
    \E k \in {1, MAX_PEERS + 1} :
        /\ peers' = removePeer(peers, peerIdOf(pingOf(k, 0)))
        /\ peerCall("removePeer", <<>>, <<>>)

CleanupCall ==
    /\ peers' = cleanupStalePeers(peers, now)
    /\ peerCall("cleanupStalePeers", <<>>, <<>>)

ClearCall ==
    /\ peers' = clearAllPeers
    /\ peerCall("clearAllPeers", <<>>, <<>>)

RegistryTick ==
    /\ now + RegistryWait <= StartTime + RegistryHorizon
    /\ now' = now + RegistryWait
    /\ UNCHANGED <<peers, emitterVars, receiverVars, inputVars, lifeVars, codecVars,
                   matchVars>>

RegistryNext == AddPeerCall \/ RemovePeerCall \/ CleanupCall \/ ClearCall \/ RegistryTick

SpecRegistry == RegistryInit /\ [][RegistryNext]_vars

----------------------------------------------------------------------------
(* Claims about the codec.                                                 *)

RoundTripRecovers ==
    (cFreq # -1 /\ cOut # NoDecode) =>
        /\ cOut.submarineType = cId
        /\ Abs(cOut.hue - cHue) < 2

RoundTripDecodes ==
    cFreq # -1 => decodeFrequency(cFreq, DefaultTolerance) # NoDecode

\* C1: for every identity and every integer hue c in 0..255, decoding the
\* encoded frequency with the default tolerance gives a non-null result
\* whose submarineType is the identity and whose hue differs from c by
\* less than 2.
C1_RoundTrip == RoundTripRecovers /\ RoundTripDecodes

C1_Witness ==
    /\ cId = "tourist"
    /\ cHue = 77
    /\ cOut # NoDecode
    /\ cOut.submarineType = "tourist"
    /\ cOut.hue = 77

\* C16: the encoded frequency is within 0.1 Hz of
\* band.min + (c / 255) * (band.max - band.min), is band.min for hue 0 and
\* band.max for hue 255, and is strictly increasing in the hue.
C16_LinearEncoding ==
    cFreq # -1 =>
        LET range == SUBMARINE_FREQUENCY_RANGES[cId]
            tenths == cFreq \div Tenths(1)
        IN  /\ cFreq = Tenths(tenths)
            /\ Abs(tenths * HueMax
                     - 10 * (range.min * HueMax + cHue * (range.max - range.min)))
                   <= HueMax
            /\ cHue = 0 => cFreq = Hz(range.min)
            /\ cHue = HueMax => cFreq = Hz(range.max)
            /\ cHue < HueMax => cFreq < getSubmarineFrequency(cId, cHue + 1)
            /\ cHue > 0 => cFreq > getSubmarineFrequency(cId, cHue - 1)

\* Hue 128 of the military band is encoded as 850.2 Hz.
C16_Witness ==
    /\ cId = "military"
    /\ cHue = 128
    /\ cFreq = Tenths(8502)

\* The band of modelId widened by the tolerance contains the frequency.
InWidenedBand(frequency, modelId, tolerance) ==
    /\ frequency >= Hz(SUBMARINE_FREQUENCY_RANGES[modelId].min - tolerance)
    /\ frequency <= Hz(SUBMARINE_FREQUENCY_RANGES[modelId].max + tolerance)

\* C13: decodeFrequency(f, tol) returns null exactly when f is outside
\* [band.min - tol, band.max + tol] for all four bands.
C13_NullExactlyOutsideBands ==
    dOut # NotDecoded =>
        (dOut = NoDecode <=> \A id \in Identities : ~InWidenedBand(dFreq, id, dTol))

\* One model unit above the military band widened by 5 Hz decodes to null.
C13_Witness ==
    /\ dFreq = Hz(905) + 1
    /\ dTol = DefaultTolerance
    /\ dOut = NoDecode

\* C14: the hue of every non-null decode is in 0..255; it is 0 when the
\* frequency is at or below the decoded band's minimum and 255 when it is at
\* or above its maximum.
C14_HueClamped ==
    (dOut # NotDecoded /\ dOut # NoDecode) =>
        LET range == SUBMARINE_FREQUENCY_RANGES[dOut.submarineType]
        IN  /\ dOut.hue \in 0..HueMax
            /\ dFreq <= Hz(range.min) => dOut.hue = 0
            /\ dFreq >= Hz(range.max) => dOut.hue = HueMax

\* 1304.5 Hz, above the robotic band but within the tolerance, decodes to
\* robotic with hue 255.
C14_Witness ==
    /\ dFreq = Tenths(13045)
    /\ dTol = DefaultTolerance
    /\ dOut.submarineType = "robotic"
    /\ dOut.hue = HueMax

\* C15: the bands widened by the default tolerance are pairwise disjoint, and
\* decodeFrequency returns the one band whose widened interval contains the
\* frequency, whatever the order in which the bands are tried.
C15_WidenedBandsDisjoint ==
    /\ \A a, b \in Identities :
           a # b => \/ SUBMARINE_FREQUENCY_RANGES[a].max + DefaultTolerance
                          < SUBMARINE_FREQUENCY_RANGES[b].min - DefaultTolerance
                    \/ SUBMARINE_FREQUENCY_RANGES[b].max + DefaultTolerance
                          < SUBMARINE_FREQUENCY_RANGES[a].min - DefaultTolerance
    /\ (dOut # NotDecoded /\ dTol = DefaultTolerance) =>
           \A id \in Identities :
               InWidenedBand(dFreq, id, DefaultTolerance) => dOut.submarineType = id

\* 995 Hz, the lower edge of the widened research band, decodes to research.
C15_Witness ==
    /\ dFreq = Hz(995)
    /\ dTol = DefaultTolerance
    /\ dOut.submarineType = "research"
    /\ dOut.hue = 0

\* The decodes mapping.test.js expects, by frequency in Hz.
testCases ==
    [f \in TestedFrequencies |->
        [expectedType |-> CASE f \in {400, 475} -> "military"
                            [] f \in {500, 575} -> "research"
                            [] f \in {600, 675} -> "robotic"
                            [] OTHER -> "tourist",
         expectedHue |-> IF f \in {400, 500, 600, 700} THEN 0 ELSE HueMax]]

\* C17: with the default tolerance, each of 400, 475, 500, 575, 600, 675,
\* 700 and 775 Hz decodes to a non-null result with the identity
\* mapping.test.js expects and a hue within 2 of the expected 0 or 255.
C17_TestedFrequenciesDecode ==
    \A f \in TestedFrequencies :
        (dFreq = Hz(f) /\ dTol = DefaultTolerance /\ dOut # NotDecoded) =>
            /\ dOut # NoDecode
            /\ dOut.submarineType = testCases[f].expectedType
            /\ Abs(dOut.hue - testCases[f].expectedHue) < 2

\* The waveforms mapping.test.js and the README give each identity.
modelWaveforms ==
    [research |-> "sine", military |-> "square", tourist |-> "sawtooth",
     robotic |-> "triangle"]

\* C18: getWaveform gives each identity its own waveform and 'sine' for an
\* unknown identity, and getModelFromWaveform maps an identity's waveform
\* back to the identity.
C18_WaveformRoundTrip ==
    /\ wForm # "unset" =>
           wForm = IF wId \in DOMAIN modelWaveforms THEN modelWaveforms[wId] ELSE "sine"
    /\ (wBack # "unset" /\ wId \in Identities) => wBack = wId

----------------------------------------------------------------------------
(* Claims about the matcher.                                               *)

MultiPulseIdentities == {"robotic", "military", "tourist"}

\* What the claims say of an identity, read off the emitter's tables.
claimedPulseCount(x) == CASE x = "robotic" -> 4 [] x = "military" -> 3 [] x = "tourist" -> 2
claimedSilence(x) == CASE x = "robotic" -> 40 [] x = "military" -> 50 [] x = "tourist" -> 75
claimedTolerance(x) == CASE x = "robotic" -> 15 [] x = "military" -> 15 [] x = "tourist" -> 20

observedGap(i) == mPulses[i + 1].startTime - mPulses[i].endTime

GapsWithin(x) ==
    /\ Len(mPulses) = claimedPulseCount(x)
    /\ \A i \in 1..(Len(mPulses) - 1) :
           Abs(observedGap(i) - claimedSilence(x)) <= claimedTolerance(x)

Matched == mResult # "unset"

\* C8: for a multi-pulse observation the matcher returns identity X exactly
\* when the pulse count is X's, every gap is within X's tolerance of X's
\* canonical silence, and the trend is X's declared trend or is not 'mixed'.
C8_MultiPulseMatch ==
    (Matched /\ Len(mPulses) > 1) =>
        \A x \in MultiPulseIdentities :
            mResult = x <=>
                /\ GapsWithin(x)
                /\ \/ mTrend = SUBMARINE_PATTERNS[x].amplitudePattern
                   \/ mTrend # "mixed"

\* Exact canonical military gaps with flat amplitude, tagged by
\* analyzeAmplitudePattern, matched to military.
C8_Witness ==
    /\ Len(mPulses) = 3
    /\ \A i \in 1..2 : observedGap(i) = 50
    /\ \A i \in 1..3 : mPulses[i].maxMagnitude = Db(-40)
    /\ mTrend = "constant"
    /\ mResult = "military"

\* C9 as stated: gaps that match X's timing with the declared trend of a
\* different identity give no match.
C9_ConflictGivesNull ==
    \A x \in MultiPulseIdentities :
        (/\ Matched
         /\ GapsWithin(x)
         /\ \E y \in Identities \ {x} : mTrend = SUBMARINE_PATTERNS[y].amplitudePattern)
            => mResult = NoMatch

\* C9: gaps that match X's timing give no match when the trend is 'mixed';
\* with the declared trend of a different identity the matcher returns X
\* (the timing-only match).
C9_OnlyMixedGivesNull ==
    \A x \in MultiPulseIdentities :
        (Matched /\ GapsWithin(x)) =>
            /\ mTrend = "mixed" => mResult = NoMatch
            /\ (\E y \in Identities \ {x} : mTrend = SUBMARINE_PATTERNS[y].amplitudePattern)
                   => mResult = x

\* Military timing with a descending trend, matched to military.
C9_Witness ==
    /\ GapsWithin("military")
    /\ mTrend = "descending"
    /\ mResult = "military"

\* C10: a single pulse is matched to research iff its duration lies in
\* [150, 300] ms and its trend is 'constant'; it is never matched to another
\* identity.
C10_SinglePulse ==
    (Matched /\ Len(mPulses) = 1) =>
        /\ mResult \in {"research", NoMatch}
        /\ mResult = "research" <=>
               /\ mPulses[1].duration >= 150
               /\ mPulses[1].duration <= 300
               /\ mTrend = "constant"

\* A 200 ms pulse tagged 'alternating', matched to nothing.
C10_Witness ==
    /\ Len(mPulses) = 1
    /\ mPulses[1].duration = 200
    /\ mTrend = "alternating"
    /\ mResult = NoMatch

\* The peak difference between pulse i + 1 and pulse i of the observation.
peakDiff(i) == mPulses[i + 1].maxMagnitude - mPulses[i].maxMagnitude

\* Every consecutive peak difference is at least 3 dB in absolute value and
\* the differences strictly alternate in sign.
StrictlyAlternating ==
    /\ \A i \in 1..(Len(mPulses) - 1) : Abs(peakDiff(i)) >= Db(3)
    /\ \A i \in 1..(Len(mPulses) - 2) : (peakDiff(i) > 0) # (peakDiff(i + 1) > 0)

\* C22: analyzeAmplitudePattern returns 'alternating' for every sequence of
\* three or more pulses whose peak differences are all at least 3 dB and
\* strictly alternate in sign.
C22_AlternatingRecognised ==
    (Len(mPulses) >= 3 /\ StrictlyAlternating) =>
        /\ analyzeAmplitudePattern(mPulses) = "alternating"
        /\ (mTrend # "unset" /\ mTrend # "alternating") =>
               mTrend # analyzeAmplitudePattern(mPulses)

\* The robotic shape strong, weak, strong, weak, tagged 'descending' by
\* analyzeAmplitudePattern.
C22_RoboticShapeDescending ==
    /\ Len(mPulses) = 4
    /\ StrictlyAlternating
    /\ peakDiff(1) < 0
    /\ mTrend = "descending"
    /\ mTrend = analyzeAmplitudePattern(mPulses)

\* The acceptance test matchSignalPattern applies to one Signature: the
\* single-pulse branch for research, one pass of the loop for the others.
passesAcceptance(modelId, pulseSequences, amplitudePattern) ==
    IF modelId = "research"
    THEN /\ Len(pulseSequences) = 1
         /\ pulseSequences[1].duration >= 150
         /\ pulseSequences[1].duration <= 300
         /\ amplitudePattern = "constant"
    ELSE /\ Len(pulseSequences) > 1
         /\ matchesTimingPattern(intervalsOf(pulseSequences),
                                 SUBMARINE_PATTERNS[modelId].timing, modelId,
                                 Len(pulseSequences))
         /\ \/ SUBMARINE_PATTERNS[modelId].amplitudePattern = amplitudePattern
            \/ amplitudePattern # "mixed"

AcceptingSignatures ==
    {modelId \in DOMAIN SUBMARINE_PATTERNS : passesAcceptance(modelId, mPulses, mTrend)}

\* C29: for every pulse sequence and amplitude trend at most one Signature
\* passes the acceptance test, and matchSignalPattern returns that Signature
\* (null when there is none), whatever the order of the candidates.
C29_AtMostOneSignatureAccepts ==
    mTrend # "unset" =>
        /\ Cardinality(AcceptingSignatures) <= 1
        /\ mResult # "unset" =>
               IF AcceptingSignatures = {}
               THEN mResult = NoMatch
               ELSE mResult \in AcceptingSignatures

\* Three pulses 50 ms apart with falling amplitude: the timing is military's,
\* the trend tourist's, and only military accepts.
C29_Witness ==
    /\ Len(mPulses) = 3
    /\ mTrend = "descending"
    /\ mResult = "military"
    /\ AcceptingSignatures = {"military"}

\* C31: an undistorted reception of a multi-pulse identity's own gain list
\* is classified by analyzeAmplitudePattern as the trend that identity
\* declares: military 'ascending', tourist 'descending', robotic
\* 'alternating'.
C31_OwnGainsGiveDeclaredTrend ==
    \A modelId \in EmittedMultiPulse, level \in ReceptionLevels :
        (mPulses = receivedTrain(modelId, level) /\ mTrend # "unset"
             /\ mTrend = analyzeAmplitudePattern(mPulses))
            => mTrend = SUBMARINE_PATTERNS[modelId].amplitudePattern

\* The military emission, received undistorted, classified 'constant'.
C31_MilitaryGainsConstant ==
    /\ \E level \in ReceptionLevels : mPulses = receivedTrain("military", level)
    /\ mTrend = analyzeAmplitudePattern(mPulses)
    /\ mTrend = "constant"
    /\ mResult = "military"

----------------------------------------------------------------------------
(* Claims about the receiver in the running application.                   *)

\* C2: a pingDetected event dispatched after a pingEmitted notification of
\* time t is dispatched at t + 2500 ms or later.
C2_NoSelfDetection ==
    \A i \in DOMAIN detected :
        \A k \in 1..detected[i].after :
            detected[i].at >= emitted[k].timestamp + 2500

\* A settle timer armed by a tone before the emission has fired after it and
\* found fewer than 25 samples; frames have been skipped since; nothing was
\* detected.
C2_Witness ==
    /\ Len(emitted) = 1
    /\ verdict.at > emitted[1].timestamp
    /\ verdict.path = "few samples"
    /\ tickAt > emitted[1].timestamp
    /\ signalHistory = <<>>
    /\ detected = <<>>

\* C3: no two pingDetected events are dispatched less than 800 ms apart.
C3_DetectionSpacing ==
    \A i, j \in DOMAIN detected :
        i < j => detected[j].at - detected[i].at >= 800

\* Two detections exactly 800 ms apart, after an analysis was turned away by
\* the cooldown, with further settle timers still pending.
C3_Witness ==
    /\ Len(detected) = 2
    /\ detected[2].at - detected[1].at = 800
    /\ timers # {}

\* C6: the sample recorded on a tick is the strongest peak inside the union
\* of the codec's bands, and is the empty sample when no peak is inside it.
C6_PeaksInCodecBands ==
    signalHistory # <<>> =>
        LET sample == signalHistory[Len(signalHistory)]
            eligible == {i \in DOMAIN peaks : InCodecBands(peaks[i].frequency)}
        IN  /\ eligible = {} => sample.frequency = Null
            /\ eligible # {} =>
                   \E i \in eligible :
                       /\ sample.frequency = peaks[i].frequency
                       /\ sample.magnitude = peaks[i].magnitude
                       /\ \A j \in eligible : peaks[j].magnitude <= peaks[i].magnitude

\* C7: every pingDetected event carries a hue in 0..255 that is the codec's
\* decode of its frequency, and every registry entry has a defined hue.
C7_DetectionCarriesHue ==
    /\ \A i \in DOMAIN detected :
           LET detail == detected[i].detail
           IN  /\ "hue" \in DOMAIN detail
               /\ detail.hue \in 0..HueMax
               /\ detail.hue = decodeFrequency(detail.frequency, DefaultTolerance).hue
    /\ \A i \in DOMAIN peers : peers[i].hue # Undefined

\* C12: every run of analyzeSignalPattern that passes the sample-count guard
\* and the cooldown guard leaves signalHistory empty and lastDetectionTime
\* equal to the current time.
C12_AnalysisClearsAndCools ==
    [][verdict' # verdict /\ verdict'.path \notin {"few samples", "cooldown"} =>
           /\ signalHistory' = <<>>
           /\ lastDetectionTime' = now']_vars

\* An analysis passed both guards, found no pulse in a full history and left
\* the history and the cooldown as they were.
C12_NoPulseKeepsHistory ==
    /\ verdict.path = "no pulse"
    /\ verdict.at = now
    /\ Len(signalHistory) >= 25
    /\ now - lastDetectionTime >= DETECTION_COOLDOWN

----------------------------------------------------------------------------
(* Claims about the emitter.                                               *)

EmissionsSpaced ==
    \A i, j \in DOMAIN emitted :
        i < j => emitted[j].timestamp - emitted[i].timestamp >= 2000

\* C4: an emitPing call made less than 2000 ms after the last accepted
\* emission returns without error and leaves the oscillators, the published
\* notifications and lastEmitTime as they were; published notifications are
\* at least 2000 ms apart.
C4_RateLimit ==
    /\ [][(/\ lastCall'.n # lastCall.n
           /\ emitted # <<>>
           /\ now - emitted[Len(emitted)].timestamp < 2000)
              => /\ lastCall'.outcome = "noop"
                 /\ UNCHANGED <<lastEmitTime, oscillators, emitted>>]_vars
    /\ []EmissionsSpaced

\* A call 1999 ms after the one accepted emission, turned away.
C4_Witness ==
    /\ lastCall.outcome = "noop"
    /\ Len(emitted) = 1
    /\ now - emitted[1].timestamp = 1999
    /\ lastEmitTime = emitted[1].timestamp

\* C5: the frequency of an accepted emitPing(hue, identity), scheduled and
\* reported, is getSubmarineFrequency(identity, hue), inside the identity's
\* band.
C5_EmitsCodecFrequency ==
    (lastCall.outcome = "accepted" /\ lastCall.modelId \in Identities) =>
        LET event == emitted[Len(emitted)]
        IN  /\ event.frequency = getSubmarineFrequency(lastCall.modelId, lastCall.hue)
            /\ InBand(event.frequency, lastCall.modelId)
            /\ \A k \in DOMAIN oscillators :
                   oscillators[k].at = event.timestamp
                       => oscillators[k].frequency = event.frequency

\* C21: the total duration of every Signature of the emitter's table (and
\* of every emission made from it) is at most 440 ms and strictly less than
\* the self-ping cooldown and the history window.
C21_SignaturesFitWindows ==
    /\ \A id \in DOMAIN EMITTER_PATTERNS :
           /\ SumSeq(EMITTER_PATTERNS[id].timing) <= 440
           /\ SumSeq(EMITTER_PATTERNS[id].timing) < SELF_PING_COOLDOWN
           /\ SumSeq(EMITTER_PATTERNS[id].timing) < HISTORY_DURATION
    /\ \A i \in DOMAIN emitted :
           /\ SumSeq(emitted[i].pattern.timing) < SELF_PING_COOLDOWN
           /\ SumSeq(emitted[i].pattern.timing) < HISTORY_DURATION
           /\ \A k \in DOMAIN oscillators :
                  oscillators[k].at = emitted[i].timestamp =>
                      /\ oscillators[k].stop <= SumSeq(emitted[i].pattern.timing)
                      /\ oscillators[k].stop < HISTORY_DURATION

\* A robotic emission, the longest: its last burst stops 440 ms after the
\* call.
C21_Witness ==
    /\ Len(emitted) = 1
    /\ emitted[1].modelId = "robotic"
    /\ Len(oscillators) = 4
    /\ oscillators[4].stop = 440

\* The bursts the step schedules.
newBursts == [k \in 1..(Len(oscillators') - Len(oscillators)) |->
                 oscillators'[Len(oscillators) + k]]

\* The sum of the first n entries of a timing list.
RECURSIVE SumOfFirst(_, _)
SumOfFirst(timing, n) ==
    IF n = 0 THEN 0 ELSE SumOfFirst(timing, n - 1) + timing[n]

\* C30: for a Signature timing [d1, s1, d2, ..., dn] an accepted emitPing
\* schedules exactly n bursts; burst k starts at t0 plus the sum of
\* (d_j + s_j) over j < k and stops d_k later, so bursts do not overlap;
\* burst k has the k-th gain of the Signature, or 0.5 when there is none;
\* and exactly one pingEmitted notification is published.
C30_BurstSchedule ==
    [][(lastCall'.n # lastCall.n /\ lastCall'.outcome = "accepted") =>
           LET Signature == IF lastCall'.modelId \in DOMAIN EMITTER_PATTERNS
                            THEN EMITTER_PATTERNS[lastCall'.modelId]
                            ELSE EMITTER_PATTERNS.research
               timing == Signature.timing
               n == (Len(timing) + 1) \div 2
           IN  /\ Len(newBursts) = n
               /\ \A k \in 1..n :
                      /\ newBursts[k].at = now
                      /\ newBursts[k].start = SumOfFirst(timing, 2 * (k - 1))
                      /\ newBursts[k].stop = newBursts[k].start + timing[2 * k - 1]
                      /\ newBursts[k].gain =
                             IF k <= Len(Signature.gains)
                             THEN Signature.gains[k] ELSE DEFAULT_PULSE_GAIN
                      /\ k < n => newBursts[k].stop <= newBursts[k + 1].start
               /\ Len(emitted') = Len(emitted) + 1
               /\ emitted'[Len(emitted')].timestamp = now]_vars

\* Two accepted robotic emissions: eight bursts, two notifications, the last
\* burst 360 ms after the call.
C30_Witness ==
    /\ Len(emitted) = 2
    /\ emitted[1].modelId = "robotic"
    /\ emitted[2].modelId = "robotic"
    /\ Len(oscillators) = 8
    /\ oscillators[8].at = emitted[2].timestamp
    /\ oscillators[8].start = 360
    /\ oscillators[8].stop = 440
    /\ oscillators[7].stop = 320

\* The peak gain the emitter schedules for pulse k of an identity under the
\* initial settings.
defaultGainOf(modelId, k) ==
    LET gains == patternDataOf(modelId).gains
    IN  IF k <= Len(gains) THEN gains[k] ELSE DEFAULT_PULSE_GAIN

\* C23: once setAudioSettings has changed PING_GAIN, the peak gain of every
\* pulse of an accepted emission depends on the setting: it is not what the
\* initial setting would have given.
C23_GainFollowsSetting ==
    [][(/\ lastCall'.n # lastCall.n
        /\ lastCall'.outcome = "accepted"
        /\ AUDIO_SETTINGS.PING_GAIN # DefaultAudioSettings.PING_GAIN)
           => \A k \in DOMAIN newBursts :
                  newBursts[k].gain # defaultGainOf(lastCall'.modelId, k)]_vars

\* An emission accepted with PING_GAIN set to 0.2 and scheduled with the
\* signature's own gains.
C23_SettingIgnored ==
    /\ AUDIO_SETTINGS.PING_GAIN = 20
    /\ lastCall.outcome = "accepted"
    /\ lastCall.modelId = "military"
    /\ Len(oscillators) = 3
    /\ \A k \in 1..3 : oscillators[k].gain = EMITTER_PATTERNS.military.gains[k]

\* C24: the frequency of a pingDetected event is the frequency of the
\* strongest pulse of the analysed history (the frequency of its sample of
\* greatest magnitude).
C24_ReportsStrongestPulseFrequency ==
    [][Len(detected') > Len(detected) =>
           detected'[Len(detected')].detail.frequency
               = strongestPulseOf(pulseSequencesOf(signalHistory, Null)).frequency]_vars

\* A detection of the 710.6 Hz pulse reported at the frequency of the faint
\* 646.0 Hz tone heard on the tick that armed the settle timer.
C24_ReportsFaintToneFrequency ==
    /\ Len(detected) = 1
    /\ detected[1].detail.magnitude = Db(-40)
    /\ detected[1].detail.frequency = 30 * SAMPLE_RATE * 10

----------------------------------------------------------------------------
(* Claims about starting and stopping the receiver.                        *)

\* C11: once stopListening has run, and until the receiver is started again,
\* no pingDetected is dispatched and no analysis runs: no frame is analysed,
\* and a settle timer that fires does not analyse the history.
C11_StoppedReceiverIsQuiet ==
    [][~isListening /\ ~isListening' =>
           /\ detected' = detected
           /\ verdict' = verdict
           /\ signalHistory' = signalHistory
           /\ peaks' = peaks]_vars

\* A settle timer armed before the stop has dispatched a pingDetected after
\* it, the receiver having been started once.
C11_DetectionAfterStop ==
    /\ ~isListening
    /\ mic.calls = 1
    /\ Len(detected) = 1
    /\ verdict.path = "matched"
    /\ timers = {}

\* C20: when the microphone cannot be acquired, startListening publishes one
\* micPermissionDenied and throws once, issues no further getUserMedia request,
\* and changes neither the listening flag nor the analysis loops, the history
\* or the timers; unless another call was granted the microphone, the receiver
\* is left not listening with no analysis loop.
C20_DeniedStartFailsOnce ==
    [][mic'.denied # mic.denied =>
           /\ mic'.denied = mic.denied + 1
           /\ mic'.thrown = mic.thrown + 1
           /\ mic'.attempts = mic.attempts
           /\ mic'.pending = mic.pending - 1
           /\ isListening' = isListening
           /\ loops' = loops
           /\ signalHistory' = signalHistory
           /\ timers' = timers
           /\ (mic.attempts = mic.denied + mic.pending => ~isListening' /\ loops' = 0)]_vars

\* The only call of startListening so far was denied the microphone: the
\* receiver is not listening and no loop runs.
C20_Witness ==
    /\ mic = [calls |-> 1, attempts |-> 1, pending |-> 0, denied |-> 1, thrown |-> 1]
    /\ ~isListening
    /\ loops = 0
    /\ tickAt > StartTime

----------------------------------------------------------------------------
(* Claims about the peak search.                                           *)

\* Bin i is above the search threshold and strictly above every other bin of
\* the spectrum within minPeakDistance bins of it.
isLocalPeak(frequencyData, i) ==
    /\ frequencyData[i] > DETECTION_THRESHOLDS.PEAK_SEARCH
    /\ \A j \in DOMAIN frequencyData :
           (j # i /\ Abs(j - i) <= minPeakDistance) => frequencyData[j] < frequencyData[i]

\* Bin i has minPeakDistance bins on either side.
isInterior(frequencyData, i) ==
    /\ i - minPeakDistance \in DOMAIN frequencyData
    /\ i + minPeakDistance \in DOMAIN frequencyData

\* pOut is the at most ten strongest of the candidate bins, strongest first,
\* each reported with its magnitude and the frequency bin * sampleRate /
\* fftSize; it is empty when no bin exceeds the search threshold.
PeaksAreStrongestOf(candidates) ==
    LET returned == {pOut[k].bin : k \in DOMAIN pOut}
    IN  /\ Len(pOut) = Min(10, Cardinality(candidates))
        /\ Cardinality(returned) = Len(pOut)
        /\ \A k \in DOMAIN pOut :
               /\ pOut[k].bin \in candidates
               /\ pOut[k].magnitude = pData[pOut[k].bin]
               /\ pOut[k].frequency = pOut[k].bin * SAMPLE_RATE * (FreqScale \div FFT_SIZE)
               /\ k > 1 => pOut[k - 1].magnitude >= pOut[k].magnitude
               /\ \A q \in candidates \ returned : pData[q] <= pOut[k].magnitude
        /\ (\A i \in DOMAIN pData : pData[i] <= DETECTION_THRESHOLDS.PEAK_SEARCH)
               => pOut = <<>>

\* C19 as stated: findFrequencyPeaks returns the at most ten strongest of all
\* bins that are above the search threshold and strictly greater than every
\* other bin within 5 bins on either side, in non-increasing magnitude order,
\* with frequency i * sampleRate / fftSize for bin i, and nothing when no bin
\* exceeds the threshold.
C19_StrongestLocalPeaks ==
    pDone => PeaksAreStrongestOf({i \in DOMAIN pData : isLocalPeak(pData, i)})

\* C19 amended: the same, of the bins that have 5 bins on either side (bins
\* 5 .. length - 6); a bin nearer to either end of the spectrum is never
\* returned.
C19_StrongestInteriorLocalPeaks ==
    pDone => PeaksAreStrongestOf({i \in DOMAIN pData :
                                     isInterior(pData, i) /\ isLocalPeak(pData, i)})

\* A rising comb with more than ten peaks: the ten strongest are returned,
\* strongest first.
C19_Witness ==
    /\ pDone
    /\ Len(pOut) = 10
    /\ Cardinality({i \in DOMAIN pData : isInterior(pData, i) /\ isLocalPeak(pData, i)}) > 10
    /\ pOut[1].magnitude > pOut[10].magnitude
    /\ pOut[1].bin > pOut[10].bin

----------------------------------------------------------------------------
(* Claims about the segmentation.                                          *)

AboveProcess(i) == sHistory[i].magnitude > processThreshold

\* The maximal runs of consecutive above-threshold samples of the history,
\* as <<first, last>> index pairs.
MaximalRuns ==
    {r \in (DOMAIN sHistory) \X (DOMAIN sHistory) :
        /\ r[1] <= r[2]
        /\ \A i \in r[1]..r[2] : AboveProcess(i)
        /\ r[1] = 1 \/ ~AboveProcess(r[1] - 1)
        /\ r[2] = Len(sHistory) \/ ~AboveProcess(r[2] + 1)}

\* C25: segmentation yields one pulse per maximal run of above-threshold
\* samples, in history order; a pulse starts and ends at the timestamps of
\* the run's first and last sample, lasts end minus start, peaks at the
\* maximum magnitude of the run with the frequency of the sample that has it;
\* consecutive pulses have a below-threshold sample between them.
C25_OnePulsePerRun ==
    sDone =>
        /\ Len(sPulses) = Cardinality(MaximalRuns)
        /\ \A k \in DOMAIN sPulses :
               LET pulse == sPulses[k]
                   first == pulse.startIndex + 1
                   last == pulse.endIndex + 1
               IN  /\ <<first, last>> \in MaximalRuns
                   /\ pulse.startTime = sHistory[first].timestamp
                   /\ pulse.endTime = sHistory[last].timestamp
                   /\ pulse.duration = pulse.endTime - pulse.startTime
                   /\ first = last => pulse.duration = 0
                   /\ \A i \in first..last : sHistory[i].magnitude <= pulse.maxMagnitude
                   /\ \E i \in first..last :
                          /\ sHistory[i].magnitude = pulse.maxMagnitude
                          /\ sHistory[i].frequency = pulse.frequency
                   /\ k > 1 => /\ sPulses[k - 1].endIndex + 1 < pulse.startIndex
                               /\ \E i \in (sPulses[k - 1].endIndex + 2)..(first - 1) :
                                      ~AboveProcess(i)

\* Two pulses: a one-sample pulse, then, after a sample exactly at the
\* threshold, a rising pulse that runs to the end of the history.
C25_Witness ==
    /\ sDone
    /\ Len(sHistory) = 5
    /\ Len(sPulses) = 2
    /\ sPulses[1].duration = 0
    /\ sHistory[2].magnitude = DETECTION_THRESHOLDS.SIGNAL_PROCESS
    /\ sPulses[2].endIndex = 4
    /\ sPulses[2].maxMagnitude = Db(-30)
    /\ sHistory[3].magnitude = Db(-40)
    /\ sPulses[2].frequency = 31 * SAMPLE_RATE * 10

\* Sample i lies inside one of the pulses segmentation found.
InPulse(i) ==
    \E k \in DOMAIN sPulses : sPulses[k].startIndex + 1 <= i /\ i <= sPulses[k].endIndex + 1

\* C35: for every sample of the history analyzeSignalPattern works on, the
\* isSignal flag stored when the sample was recorded equals the
\* above-threshold bit segmentation computes from its magnitude, also when
\* setDetectionThresholds has changed the process threshold in between.
C35_FlagMatchesSegmentation ==
    sDone => \A i \in DOMAIN sHistory : sHistory[i].isSignal = InPulse(i)

\* A -40 dB sample recorded as signal under the -45 dB threshold and left out
\* of every pulse after the threshold was raised to -35 dB.
C35_StaleFlag ==
    /\ sDone
    /\ processThreshold = Db(-35)
    /\ \E i \in DOMAIN sHistory :
           /\ sHistory[i].magnitude = Db(-40)
           /\ sHistory[i].isSignal
           /\ ~InPulse(i)

\* C36: between two consecutive accepted emissions there is a time at which
\* the receiver is not under self-ping suppression: when emitPing accepts a
\* call after an earlier emission, the suppression window opened by that
\* emission has already ended.
C36_SuppressionEndsBeforeNextEmission ==
    [][(Len(emitted) >= 1 /\ Len(emitted') = Len(emitted) + 1) =>
           now - lastSelfPingTime >= SELF_PING_COOLDOWN]_vars

\* Two emissions both accepted, the second one inside the suppression window
\* of the first: onAudioFrame returns early at every time in between.
C36_SuppressedThroughout ==
    /\ Len(emitted) >= 2
    /\ emitted[2].timestamp - emitted[1].timestamp >= EMIT_COOLDOWN
    /\ \A t \in emitted[1].timestamp..emitted[2].timestamp :
           t - emitted[1].timestamp < SELF_PING_COOLDOWN

\* The registry as peers.set leaves it on an insertion that raises its size
\* to MAX_PEERS + 1, before the eviction.
OverfullRegistry == Append(peers, peerOf(lastPeerCall'.given[1]))

\* C37: after any sequence of addPeer, removePeer, cleanupStalePeers and
\* clearAllPeers the registry holds at most 20 peers, one entry per peer id;
\* and when an insertion raises the size to 21, exactly one peer is removed
\* and it is one with the smallest lastSeen.
C37_RegistryBounded ==
    [][/\ Len(peers') <= MAX_PEERS
       /\ \A i, j \in DOMAIN peers' : peers'[i].id = peers'[j].id => i = j
       /\ (/\ lastPeerCall'.op = "addPeer"
           /\ lastPeerCall'.n # lastPeerCall.n
           /\ Len(peers) = MAX_PEERS
           /\ indexOfPeer(peers, peerIdOf(lastPeerCall'.given[1])) = 0)
              => \E i \in DOMAIN OverfullRegistry :
                     /\ peers' = removeAt(OverfullRegistry, i)
                     /\ \A j \in DOMAIN OverfullRegistry :
                            OverfullRegistry[i].lastSeen <= OverfullRegistry[j].lastSeen]_vars

\* A new peer was added to a full registry whose oldest entry was the first:
\* the registry still holds 20 peers, the new one last, the first one gone.
C37_Witness ==
    /\ lastPeerCall.op = "addPeer"
    /\ Len(peers) = MAX_PEERS
    /\ peers[MAX_PEERS].id = peerIdOf(pingOf(MAX_PEERS + 1, 0))
    /\ indexOfPeer(peers, peerIdOf(pingOf(1, 0))) = 0

\* C38: addPeer returns the registry record built from the ping it was
\* given, never undefined, and that record is in the registry when addPeer
\* returns, whatever the timestamps of the peers already stored.
C38_AddPeerReturnsStoredRecord ==
    lastPeerCall.op = "addPeer" =>
        /\ lastPeerCall.returned = <<peerOf(lastPeerCall.given[1])>>
        /\ \E i \in DOMAIN peers : peers[i] = peerOf(lastPeerCall.given[1])

\* addPeer has returned undefined: the ping of a new peer, older than every
\* stored one, was added to a full registry and evicted at once.
C38_ReturnsUndefined ==
    /\ lastPeerCall.op = "addPeer"
    /\ lastPeerCall.returned = <<>>
    /\ Len(peers) = MAX_PEERS
    /\ indexOfPeer(peers, peerIdOf(lastPeerCall.given[1])) = 0

\* The identity tones within tolerance of the probed frequency.
TonesWithin ==
    {i \in DOMAIN FREQUENCY_TO_SUBMARINE :
        withinTone(dFreq, FREQUENCY_TO_SUBMARINE[i].freq, dTol)}

\* The entries of FREQUENCY_TO_SUBMARINE in every order.
EntryOrders ==
    {[i \in DOMAIN FREQUENCY_TO_SUBMARINE |-> FREQUENCY_TO_SUBMARINE[order[i]]] :
        order \in Permutations(DOMAIN FREQUENCY_TO_SUBMARINE)}

\* C39: in the dual-tone profile, with the default tolerance of 10 Hz, no
\* frequency is within tolerance of two identity tones, so the result of
\* getSubmarineFromFrequency is the same in whatever order the tones are
\* tried.
C39_DualToneUnambiguous ==
    (toneOut # "unset" /\ dTol = TONE_TOLERANCE) =>
        /\ Cardinality(TonesWithin) <= 1
        /\ \A entries \in EntryOrders : firstWithin(entries, dFreq, dTol) = toneOut

\* 530 Hz decoded with the default tolerance: 10 Hz from the research tone
\* and 10 Hz from the military tone; the table's order makes it research.
C39_Ambiguous530 ==
    /\ dFreq = Hz(530)
    /\ dTol = TONE_TOLERANCE
    /\ toneOut = "research"
    /\ Cardinality(TonesWithin) = 2

----------------------------------------------------------------------------
(* Claims about one pulse train.                                           *)

\* The frames of the recording that give a sample above the process
\* threshold.
PulseFrames == {k \in DOMAIN feed : sampleOf(FramePeaks[feed[k]], 0).isSignal}

FirstPulseFrame == CHOOSE k \in PulseFrames : \A other \in PulseFrames : k <= other
LastPulseFrame == CHOOSE k \in PulseFrames : \A other \in PulseFrames : k >= other

\* The recording holds a pulse train no longer than the history window.
TrainFitsWindow ==
    /\ PulseFrames # {}
    /\ (LastPulseFrame - FirstPulseFrame) * TickPeriod <= HISTORY_DURATION

\* No six consecutive frames inside the train are below the threshold: the
\* completion check cannot hold before the last pulse.
TrainHasShortGaps ==
    \A k \in FirstPulseFrame..(LastPulseFrame - 5) :
        \E j \in k..(k + 5) : j \in PulseFrames

\* C26 (as stated): a single pulse train no longer than the history window,
\* followed by silence, causes at most one pingDetected event.
C26_TrainDetectedOnce ==
    TrainFitsWindow => Len(detected) <= 1

\* C26 (amended): a single pulse train no longer than the history window
\* whose quiet gaps are shorter than the six samples of the completion
\* check, followed by silence, causes at most one pingDetected event.
C26_ShortGapTrainDetectedOnce ==
    (TrainFitsWindow /\ TrainHasShortGaps) => Len(detected) <= 1

\* The train was detected and a settle timer armed by the same train fired
\* after the detection and was discarded.
C26_Witness ==
    /\ TrainFitsWindow
    /\ TrainHasShortGaps
    /\ Len(detected) = 1
    /\ verdict.at >= detected[1].at
    /\ verdict.path = "few samples"

\* The two-pulse train reported twice.
C26_GappedTrainDetectedTwice ==
    /\ TrainFitsWindow
    /\ ~TrainHasShortGaps
    /\ Len(detected) = 2

----------------------------------------------------------------------------
(* Claims about settle timers during the detection cooldown.               *)

\* A step in which a settle timer fires.
SettleTimerFires == timers' # timers /\ timers' \subseteq timers

\* C27: a settle timer that fires less than 800 ms after the detection
\* cooldown was last restarted dispatches nothing and leaves signalHistory
\* and lastDetectionTime unchanged.
C27_CooldownDiscardsTimer ==
    [][(SettleTimerFires /\ now' - lastDetectionTime < DETECTION_COOLDOWN) =>
           /\ detected' = detected
           /\ peers' = peers
           /\ signalHistory' = signalHistory
           /\ lastDetectionTime' = lastDetectionTime]_vars

\* A timer was discarded by the cooldown although the history held enough
\* samples, one of them a signal, to be analysed.
C27_Witness ==
    /\ verdict.path = "cooldown"
    /\ verdict.at - lastDetectionTime < DETECTION_COOLDOWN
    /\ Len(signalHistory) >= 25
    /\ hasSignal(signalHistory)

----------------------------------------------------------------------------
(* Claims about the rolling history.                                       *)

\* The number of ticks, TickPeriod apart, that are less than HISTORY_DURATION
\* older than the latest of them.
TicksInWindow == (HISTORY_DURATION + TickPeriod - 1) \div TickPeriod

\* C28: at the end of every analysis tick that the self-ping cooldown does
\* not skip, every sample of signalHistory is less than 700 ms older than
\* the tick, timestamps are non-decreasing in list order, and the history is
\* no longer than the number of ticks that fit in 700 ms.
C28_HistoryIsRollingWindow ==
    [][(tickAt' # tickAt /\ tickAt' - lastSelfPingTime >= SELF_PING_COOLDOWN) =>
           /\ \A i \in DOMAIN signalHistory' :
                  /\ tickAt' - signalHistory'[i].timestamp < HISTORY_DURATION
                  /\ signalHistory'[i].timestamp <= tickAt'
           /\ \A i, j \in DOMAIN signalHistory' :
                  i < j => signalHistory'[i].timestamp <= signalHistory'[j].timestamp
           /\ signalHistory'[Len(signalHistory')].timestamp = tickAt'
           /\ Len(signalHistory') <= TicksInWindow]_vars

\* The history is full and older samples have been dropped from it.
C28_Witness ==
    /\ Len(signalHistory) = TicksInWindow
    /\ signalHistory[Len(signalHistory)].timestamp = tickAt
    /\ tickAt - signalHistory[1].timestamp = (TicksInWindow - 1) * TickPeriod
    /\ signalHistory[1].timestamp > StartTime

----------------------------------------------------------------------------
(* Claims about the analysis loop.                                         *)

\* The samples of a history recorded at time t.
samplesAt(history, t) == {i \in DOMAIN history : history[i].timestamp = t}

\* C32: at most one analysis loop is active at any time: whatever the
\* interleaving of startListening and stopListening calls, each animation
\* frame records at most one sample into signalHistory.
C32_OneSamplePerFrame ==
    [][tickAt' # tickAt =>
           /\ loops' <= 1
           /\ Cardinality(samplesAt(signalHistory', tickAt')) <= 1]_vars

\* Two loops run: the last animation frame recorded two samples.
C32_TwoLoops ==
    /\ isListening
    /\ loops = 2
    /\ Cardinality(samplesAt(signalHistory, tickAt)) = 2
    /\ tickAt > StartTime

----------------------------------------------------------------------------
(* Claims about the frame rate.                                            *)

\* analyzeSignalPattern has passed its guards and found a pulse (the harness
\* has no emission, so nothing else restarts the detection cooldown).
PulseAnalysed == lastDetectionTime # 0

\* The frame at tickAt has dropped the last sample of the pulse.
PulseEvicted == tickAt - StartTime >= PulseAfter + PulseLength + HISTORY_DURATION

\* C33: while the receiver listens and no cooldown is active, a pulse
\* followed by silence is analysed before its samples are evicted, at every
\* frame period in the tens of Hz: by the frame that drops the pulse's last
\* sample a settle timer has fired and passed the sample-count guard.
C33_PulseAnalysedBeforeEviction == PulseEvicted => PulseAnalysed

\* At 30 frames a second the pulse has been recorded and evicted again
\* without any settle timer having been armed.
C33_PulseEvictedUnanalysed ==
    /\ framePeriod = 33
    /\ tickAt - StartTime > PulseAfter + PulseLength + HISTORY_DURATION
    /\ ~hasSignal(signalHistory)
    /\ timers = {}
    /\ verdict = NoVerdict
    /\ detected = <<>>

----------------------------------------------------------------------------
(* Claims about the recorded sample.                                       *)

\* The in-band bins of a spectrum that are local-maximum peaks above the
\* search threshold.
inBandPeaks(frequencyData) ==
    {i \in DOMAIN frequencyData :
        /\ inOptimalRange(i * SAMPLE_RATE * 10)
        /\ isInterior(frequencyData, i)
        /\ isLocalPeak(frequencyData, i)}

\* The greatest magnitude among the in-band peaks of each spectrum, -100 dB
\* when there is none.
InBandBest ==
    [frame \in FrameNames |->
        LET data == FrameData[frame]
            bins == inBandPeaks(data)
        IN  IF bins = {} THEN Db(-100)
            ELSE data[CHOOSE i \in bins : \A j \in bins : data[j] <= data[i]]]

\* C34: on every processed tick the magnitude recorded in the history is the
\* greatest magnitude among the in-band local-maximum peaks above the search
\* threshold, and the sample is marked as signal whenever that magnitude
\* exceeds the process threshold, however many stronger peaks lie outside
\* the band.
C34_RecordsBestInBandPeak ==
    \A i \in DOMAIN signalHistory :
        LET sample == signalHistory[i]
            best == InBandBest[frameAt(sample.timestamp)]
        IN  /\ sample.magnitude = best
            /\ sample.isSignal = (best > DETECTION_THRESHOLDS.SIGNAL_PROCESS)

\* A frame with the tone in band at -40 dB and ten stronger tones outside the
\* band, recorded as silence.
C34_InBandToneLost ==
    /\ signalHistory # <<>>
    /\ LET sample == signalHistory[Len(signalHistory)]
       IN  /\ frameAt(sample.timestamp) = "crowded"
           /\ InBandBest["crowded"] = Db(-40)
           /\ sample.magnitude = Db(-100)
           /\ sample.frequency = Null
           /\ ~sample.isSignal

=============================================================================
